---- MODULE Spec2Model ----
(***************************************************************************)
(* Queue-driven audio pipeline of MonlamAI/stt-audio-pipeline:             *)
(* the three worker loops (download, split, upload), the SQS queue client  *)
(* they share, and the two object stores (MinIO intermediate, S3 output).  *)
(*                                                                         *)
(* Strings that the code parses (paths, keys) are sequences of tokens;     *)
(* the token "/" is the path separator, so split('/', 1), prefix listing   *)
(* and string concatenation are computed on the sequence.  A queue message *)
(* body is the dict that json.dumps serialised, as a record; "k in job"    *)
(* is "k \in DOMAIN job".                                                  *)
(***************************************************************************)
EXTENDS Integers, Sequences, FiniteSets, TLC

\* ------------------------------------------------------------------ bounds
\* number of injected faults (transient errors, crashes, visibility timeouts
\* that expire while the receiver is still working) and shutdown signals in
\* one behaviour
MaxFaults == 2
\* largest number of segments split_audio_with_vad returns for a source
MaxSegs == 2

\* empty receives in a row one worker loop counts
MaxEmpty == 1

\* ----------------------------------------------------------------- workers
DownloadWorkers == {"d1", "d2"}
SplitWorkers == {"s1", "s2"}
UploadWorkers == {"u1", "u2"}
Workers == DownloadWorkers \cup SplitWorkers \cup UploadWorkers

QDownload == "stt-download-jobs"
QSplit == "stt-split-jobs"
QUpload == "stt-upload-jobs"
Queues == {QDownload, QSplit, QUpload}

\* the queue a worker loop polls
QueueOf(w) ==
  IF w \in DownloadWorkers THEN QDownload
  ELSE IF w \in SplitWorkers THEN QSplit ELSE QUpload

\* max_messages of the worker's receive_messages call
MaxMessagesOf(w) == IF w \in DownloadWorkers THEN 1 ELSE 5

\* a loop that leaves visibility_timeout at the default of receive_messages
VisibilityTimeoutDefault(w) == 300

\* visibility_timeout of the worker's receive_messages call, in seconds
VisibilityTimeoutOf(w) == IF w \in DownloadWorkers THEN 600 ELSE 900

\* the visibility timeout the split and upload loops extend a message to
ExtendedVisibility == 1800

\* default output bucket, os.environ.get('AWS_S3_BUCKET', ...)
AWS_S3_BUCKET == <<"monlamai-stt-raw-audio">>

\* ----------------------------------------------------------------- strings
Slash == "/"

\* index of the first "/" of s, 0 when there is none
FirstSlash(s) ==
  IF \E i \in 1..Len(s) : s[i] = Slash
  THEN CHOOSE i \in 1..Len(s) : s[i] = Slash /\ \A j \in 1..(i - 1) : s[j] # Slash
  ELSE 0

\* index of the last "/" of s, 0 when there is none
LastSlash(s) ==
  IF \E i \in 1..Len(s) : s[i] = Slash
  THEN CHOOSE i \in 1..Len(s) : s[i] = Slash /\ \A j \in (i + 1)..Len(s) : s[j] # Slash
  ELSE 0

\* s.rsplit('/', 1)
RSplit1(s) ==
  IF LastSlash(s) = 0 THEN <<s>>
  ELSE <<SubSeq(s, 1, LastSlash(s) - 1), SubSeq(s, LastSlash(s) + 1, Len(s))>>

\* s.split('/', 1)
Split1(s) ==
  IF FirstSlash(s) = 0 THEN <<s>>
  ELSE <<SubSeq(s, 1, FirstSlash(s) - 1), SubSeq(s, FirstSlash(s) + 1, Len(s))>>

\* s.startswith(p)
StartsWith(s, p) == Len(p) <= Len(s) /\ SubSeq(s, 1, Len(p)) = p

\* os.path.splitext(key)[1] or '.mp3'
SourceExt(key) ==
  IF Len(key) > 0 /\ key[Len(key)] \in {".wav", ".mp3"} THEN key[Len(key)] ELSE ".mp3"

\* job.get(k, d)
Get(job, k, d) == IF k \in DOMAIN job THEN job[k] ELSE d

\* f'segment_{i:03d}.wav' for the 1-based segment number i
Digit(d) == <<"0", "1", "2", "3", "4", "5", "6", "7", "8", "9">>[d + 1]

\* f'segment_{i:03d}.wav' for the 0-based position of the segment
SegmentNameZeroBased(i) ==
  <<"segment_", Digit(((i - 1) \div 100) % 10), Digit(((i - 1) \div 10) % 10), Digit((i - 1) % 10), ".wav">>

SegmentName(i) ==
  <<"segment_", Digit((i \div 100) % 10), Digit((i \div 10) % 10), Digit(i % 10), ".wav">>

MetadataName == <<"metadata.json">>

\* ------------------------------------------------------------------- state
VARIABLES
  queue,      \* queue[q]: the messages held by queue q, [id, body, visible, timeout]
  nextId,     \* next MessageId the queue service hands out
  acked,      \* history: messages removed by delete_message, [q, id, body]
  minio,      \* intermediate store: <<bucket, key>> -> content
  s3,         \* output store: <<bucket, key>> -> content
  pc,         \* pc[w]: position of worker w in its loop
  batch,      \* batch[w]: messages of the current receive still to handle
  status,     \* status[w]: "SUCCESS" / "FAILED" printed for the current message
  localFile,  \* localFile[w]: content of the file in the worker's tmpdir
  pending,    \* pending[w]: segment numbers whose upload future is not done
  raised,     \* raised[w]: some upload future raised
  uploaded,   \* uploaded[w]: the list `uploaded` of process_split
  nsegs,      \* number of segments VAD finds in the source audio
  vad,        \* one call of split_audio_with_vad: its position, inputs, results
  client,     \* a process that uses the queue client: its cache, calls, requests
  loops,      \* loops[w]: the while loop of worker w, [sleeping, consecutive_empty]
  faults      \* faults injected so far

vars == <<queue, nextId, acked, minio, s3, pc, batch, status, localFile,
          pending, raised, uploaded, nsegs, vad, client, loops, faults>>

stores == <<minio, s3>>
splitLocals == <<pending, raised, uploaded>>
audio == <<nsegs, vad>>

\* ------------------------------------------------------------ object store
Exists(store, bucket, key) == <<bucket, key>> \in DOMAIN store

Put(store, bucket, key, body) ==
  [x \in (DOMAIN store) \cup {<<bucket, key>>} |->
     IF x = <<bucket, key>> THEN body ELSE store[x]]

\* keys of `bucket` that start with `prefix`
KeysWithPrefix(store, bucket, prefix) ==
  {x[2] : x \in {y \in DOMAIN store : y[1] = bucket /\ StartsWith(y[2], prefix)}}

\* the audio files of the source bucket, by extension
AudioFiles(bucket) ==
  {k \in KeysWithPrefix(minio, bucket, <<>>) : Len(k) > 0 /\ k[Len(k)] \in {".wav", ".mp3"}}

EmptyStore == [x \in {} |-> <<>>]

\* object and file contents
NoFile == [kind |-> "none"]
Audio(fmt) == [kind |-> "audio", format |-> fmt]

\* ------------------------------------------------------------------- queue
\* sqs.send_message: a new visible message with a fresh MessageId
SendMessage(q, body) ==
  /\ queue' = [queue EXCEPT ![q] = @ \cup {[id |-> nextId, body |-> body, visible |-> TRUE, timeout |-> 0]}]
  /\ nextId' = nextId + 1

Ids(q) == {m.id : m \in queue[q]}

\* the worker is still holding message id with the handle of the latest receive
Holds(w, id) == \E k \in 1..Len(batch[w]) : batch[w][k].id = id /\ ~batch[w][k].stale

CanFault == faults < MaxFaults
Fault == faults' = faults + 1

\* the message the worker's for-loop is at, and its decoded body
Msg(w) == Head(batch[w])
Job(w) == Msg(w).body

\* ---------------------------------------------------------- worker loop
\* the loop is not in time.sleep and consecutive_empty = 0
IdleLoop == [sleeping |-> 0, consecutive_empty |-> 0]

\* "time.sleep(5)  # Back off on errors", in seconds
ERROR_SLEEP == 5

\* the outer handler of worker w has printed the error and calls time.sleep
Sleeps(w) == loops' = [loops EXCEPT ![w].sleeping = ERROR_SLEEP]

\* end of one for-iteration: the locals of the stage function are gone, on to
\* the next message, or back to polling
NextMsg(w) ==
  /\ batch' = [batch EXCEPT ![w] = Tail(@)]
  /\ pc' = [pc EXCEPT ![w] = IF Len(batch[w]) > 1 THEN "loop" ELSE "poll"]
  /\ localFile' = [localFile EXCEPT ![w] = NoFile]
  /\ pending' = [pending EXCEPT ![w] = {}]
  /\ raised' = [raised EXCEPT ![w] = FALSE]
  /\ uploaded' = [uploaded EXCEPT ![w] = <<>>]

\* except Exception as e: print("... FAILED")
Failed(w) ==
  /\ status' = [status EXCEPT ![w] = "FAILED"]
  /\ NextMsg(w)

\* the worker moves on to `label` within the same for-iteration
Goto(w, label) ==
  /\ pc' = [pc EXCEPT ![w] = label]
  /\ UNCHANGED <<batch, status>>

\* the same, the upload futures untouched
Step(w, label) ==
  /\ Goto(w, label)
  /\ UNCHANGED splitLocals

\* the stage function returned normally: delete_message is next
Returned(w) == Step(w, "delete")

\* sequences over the set S without repetition, the orders a receive may return
Orders(S) ==
  {f \in [1..Cardinality(S) -> S] : \A i, j \in 1..Cardinality(S) : f[i] = f[j] => i = j}

\* receive_messages returned a non-empty list: the messages become invisible,
\* every older receipt handle of them is superseded
receive_messages(w) ==
  /\ pc[w] = "poll" /\ loops[w].sleeping = 0
  /\ \E S \in SUBSET {m \in queue[QueueOf(w)] : m.visible} :
       /\ S # {}
       /\ Cardinality(S) <= (IF MaxMessagesOf(w) < 10 THEN MaxMessagesOf(w) ELSE 10)
       /\ \E ord \in Orders(S) :
            batch' = [v \in Workers |->
               IF v = w THEN [k \in 1..Len(ord) |-> [id |-> ord[k].id, body |-> ord[k].body, stale |-> FALSE]]
               ELSE IF QueueOf(v) = QueueOf(w)
                    THEN [k \in 1..Len(batch[v]) |->
                            IF batch[v][k].id \in {m.id : m \in S}
                            THEN [batch[v][k] EXCEPT !.stale = TRUE] ELSE batch[v][k]]
                    ELSE batch[v]]
       /\ queue' = [queue EXCEPT ![QueueOf(w)] =
                      {IF m \in S THEN [m EXCEPT !.visible = FALSE, !.timeout = VisibilityTimeoutOf(w)]
                       ELSE m : m \in @}]
  /\ pc' = [pc EXCEPT ![w] = "loop"]
  /\ loops' = [loops EXCEPT ![w].consecutive_empty = 0]
  /\ UNCHANGED <<nextId, acked, stores, status, localFile, splitLocals, audio, client, faults>>

\* a message body json.loads rejects
NotJson == [undecodable |-> TRUE]
Decodes(body) == "undecodable" \notin DOMAIN body

\* an outer handler that gives up: the function returns after the error
WorkerErrorExits(w) ==
  /\ pc' = [pc EXCEPT ![w] = "exited"]
  /\ batch' = [batch EXCEPT ![w] = <<>>]
  /\ UNCHANGED <<status, localFile, splitLocals, loops>>

\* an outer handler that goes straight back to the receive
WorkerErrorHot(w) ==
  /\ pc' = [pc EXCEPT ![w] = "poll"]
  /\ batch' = [batch EXCEPT ![w] = <<>>]
  /\ UNCHANGED <<status, localFile, splitLocals, loops>>

\* the outer "except Exception": print("Worker error"), sleep, and the while
\* loop goes on with the next receive; the rest of the batch is dropped
WorkerError(w) ==
  /\ pc' = [pc EXCEPT ![w] = "poll"]
  /\ batch' = [batch EXCEPT ![w] = <<>>]
  /\ Sleeps(w)
  /\ UNCHANGED <<status, localFile, splitLocals>>

\* for msg in messages: job = json.loads(msg['Body']); print("Processing ...")
LoopMsg(w) ==
  /\ pc[w] = "loop"
  /\ IF Decodes(Msg(w).body)
     THEN /\ status' = [status EXCEPT ![w] = ""]
          /\ pc' = [pc EXCEPT ![w] =
               IF w \in DownloadWorkers THEN "d_exists" ELSE "extend"]
          /\ UNCHANGED <<batch, localFile, splitLocals, loops>>
     ELSE WorkerError(w)
  /\ UNCHANGED <<queue, nextId, acked, stores, audio, client, faults>>

\* receive_messages raises (a queue or transport error): the outer handler
\* sleeps and the loop polls again
receive_raises(w) ==
  /\ pc[w] = "poll" /\ loops[w].sleeping = 0
  /\ CanFault /\ Fault
  /\ Sleeps(w)
  /\ UNCHANGED <<queue, nextId, acked, stores, pc, batch, status, localFile, splitLocals, audio, client>>

\* receive_messages returned an empty list after the long poll of
\* wait_time_seconds: "consecutive_empty += 1 ... continue"
receive_empty(w) ==
  /\ pc[w] = "poll" /\ loops[w].sleeping = 0
  /\ \A m \in queue[QueueOf(w)] : ~m.visible
  /\ loops[w].consecutive_empty < MaxEmpty
  /\ loops' = [loops EXCEPT ![w].consecutive_empty = @ + 1]
  /\ UNCHANGED <<queue, nextId, acked, stores, pc, batch, status, localFile, splitLocals, audio, client, faults>>

\* time.sleep returns: the while loop goes on with the next receive
time_sleep(w) ==
  /\ pc[w] = "poll" /\ loops[w].sleeping > 0
  /\ loops' = [loops EXCEPT ![w].sleeping = 0]
  /\ UNCHANGED <<queue, nextId, acked, stores, pc, batch, status, localFile, splitLocals, audio, client, faults>>

\* the shutdown signal: "except KeyboardInterrupt: print("Shutting down ...");
\* break", wherever the loop stands
KeyboardInterrupt(w) ==
  /\ pc[w] \notin {"stopped", "exited"}
  /\ CanFault /\ Fault
  /\ pc' = [pc EXCEPT ![w] = "exited"]
  /\ status' = [status EXCEPT ![w] = "SHUTDOWN"]
  /\ batch' = [batch EXCEPT ![w] = <<>>]
  /\ localFile' = [localFile EXCEPT ![w] = NoFile]
  /\ pending' = [pending EXCEPT ![w] = {}]
  /\ raised' = [raised EXCEPT ![w] = FALSE]
  /\ uploaded' = [uploaded EXCEPT ![w] = <<>>]
  /\ loops' = [loops EXCEPT ![w] = IdleLoop]
  /\ UNCHANGED <<queue, nextId, acked, stores, audio, client>>

\* the queue after change_message_visibility(queue_url, handle, seconds): the
\* in-flight message the handle belongs to has the new timeout
Extended(q, msg, seconds) ==
  {IF m.id = msg.id /\ ~m.visible /\ ~msg.stale THEN [m EXCEPT !.timeout = seconds] ELSE m :
     m \in queue[q]}

\* change_message_visibility(queue_url, handle, 1800) of the split and upload loops
change_message_visibility(w) ==
  /\ pc[w] = "extend"
  /\ \/ /\ queue' = [queue EXCEPT ![QueueOf(w)] = Extended(QueueOf(w), Msg(w), ExtendedVisibility)]
        /\ Step(w, IF w \in SplitWorkers THEN "s_check" ELSE "u_check")
        /\ UNCHANGED <<faults, localFile>>
     \/ /\ CanFault /\ Fault
        /\ Failed(w)
        /\ UNCHANGED queue
  /\ UNCHANGED <<nextId, acked, stores, audio, client, loops>>

\* delete_message(queue_url, handle) after the stage function returned.
\* A superseded receipt handle: the request succeeds, the message may stay.
DeleteEffect(w) ==
  \/ /\ queue' = [queue EXCEPT ![QueueOf(w)] = {m \in @ : m.id # Msg(w).id}]
     /\ acked' = IF Msg(w).id \in Ids(QueueOf(w))
                 THEN acked \cup {[q |-> QueueOf(w), id |-> Msg(w).id, body |-> Job(w)]}
                 ELSE acked
  \/ /\ Msg(w).stale
     /\ UNCHANGED <<queue, acked>>

\* the loop with delete_message in a `finally`: the message is acknowledged
\* wherever the stage function stands
delete_message_early(w) ==
  /\ pc[w] \notin {"poll", "stopped", "exited", "loop"}
  /\ DeleteEffect(w)
  /\ status' = [status EXCEPT ![w] = "SUCCESS"]
  /\ NextMsg(w)
  /\ UNCHANGED <<faults, nextId, stores, audio, client, loops>>

delete_message(w) ==
  /\ pc[w] = "delete"
  /\ \/ /\ DeleteEffect(w)
        /\ status' = [status EXCEPT ![w] = "SUCCESS"]
        /\ NextMsg(w)
        /\ UNCHANGED faults
     \/ /\ CanFault /\ Fault
        /\ Failed(w)
        /\ UNCHANGED <<queue, acked>>
  /\ UNCHANGED <<nextId, stores, audio, client, loops>>

\* the worker process dies and is restarted: nothing is acknowledged
Crash(w) ==
  /\ pc[w] \notin {"poll", "stopped", "exited"}
  /\ CanFault /\ Fault
  /\ pc' = [pc EXCEPT ![w] = "poll"]
  /\ batch' = [batch EXCEPT ![w] = <<>>]
  /\ localFile' = [localFile EXCEPT ![w] = NoFile]
  /\ pending' = [pending EXCEPT ![w] = {}]
  /\ raised' = [raised EXCEPT ![w] = FALSE]
  /\ uploaded' = [uploaded EXCEPT ![w] = <<>>]
  /\ loops' = [loops EXCEPT ![w] = IdleLoop]
  /\ UNCHANGED <<queue, nextId, acked, stores, status, audio, client>>

\* a queue whose in-flight messages stay hidden when the timeout elapses
VisibilityTimeoutKeepsHidden(q, id) ==
  /\ \E m \in queue[q] : m.id = id /\ ~m.visible
  /\ IF \E w \in Workers : QueueOf(w) = q /\ Holds(w, id)
     THEN CanFault /\ Fault
     ELSE UNCHANGED faults
  /\ UNCHANGED <<queue, nextId, acked, stores, pc, batch, status, localFile, splitLocals, audio, client, loops>>

\* a queue with a redrive policy of one receive: a message whose timeout
\* elapses is moved to a dead-letter queue
VisibilityTimeoutDeadLetters(q, id) ==
  /\ \E m \in queue[q] : m.id = id /\ ~m.visible
  /\ IF \E w \in Workers : QueueOf(w) = q /\ Holds(w, id)
     THEN CanFault /\ Fault
     ELSE UNCHANGED faults
  /\ queue' = [queue EXCEPT ![q] = {m \in @ : m.id # id}]
  /\ UNCHANGED <<nextId, acked, stores, pc, batch, status, localFile, splitLocals, audio, client, loops>>

\* the visibility timeout of an in-flight message elapses.  It is a fault
\* when the receiver is still holding the message.
VisibilityTimeout(q, id) ==
  /\ \E m \in queue[q] : m.id = id /\ ~m.visible
  /\ IF \E w \in Workers : QueueOf(w) = q /\ Holds(w, id)
     THEN CanFault /\ Fault
     ELSE UNCHANGED faults
  /\ queue' = [queue EXCEPT ![q] =
       {IF m.id = id THEN [m EXCEPT !.visible = TRUE, !.timeout = 0] ELSE m : m \in @}]
  /\ UNCHANGED <<nextId, acked, stores, pc, batch, status, localFile, splitLocals, audio, client, loops>>

\* get_queue_stats: the counts of visible and of in-flight messages
get_queue_stats(q) ==
  [pending |-> Cardinality({m \in queue[q] : m.visible}),
   in_flight |-> Cardinality({m \in queue[q] : ~m.visible}),
   delayed |-> 0]

\* ------------------------------------------------------------- split stage
\* process_split: source location, new shape or legacy raw_audio_path
SplitSource(job) ==
  IF "source_bucket" \in DOMAIN job
  THEN [bucket |-> job.source_bucket, key |-> job.source_key]
  ELSE LET raw_audio_path == Get(job, "raw_audio_path", <<>>)
           parts == Split1(raw_audio_path)
       IN [bucket |-> IF Len(parts) > 1 THEN parts[1] ELSE <<"audio">>,
           key |-> IF Len(parts) > 1 THEN parts[2] ELSE raw_audio_path]

OutputBucket(job) == Get(job, "output_bucket", AWS_S3_BUCKET)
OutputPrefix(job) == Get(job, "output_prefix", job.job_id)

SegmentKey(job, i) == OutputPrefix(job) \o <<Slash>> \o SegmentName(i)
MetadataKey(job) == OutputPrefix(job) \o <<Slash>> \o MetadataName

\* an idempotency check that looks for the manifest only
SplitManifestExists(store, job) == Exists(store, OutputBucket(job), MetadataKey(job))

\* the idempotency listing: list_objects_v2(Prefix=f"{output_prefix}/", MaxKeys=1)
SplitAlreadyProcessed(store, job) ==
  KeysWithPrefix(store, OutputBucket(job), OutputPrefix(job) \o <<Slash>>) # {}

\* "Check if already processed": skip, or go on; a listing that raises is
\* logged as a warning and processing goes on
\* a check whose listing error is not caught: the message fails
process_split_check_strict(w) ==
  /\ pc[w] = "s_check"
  /\ \/ /\ SplitAlreadyProcessed(s3, Job(w))
        /\ Returned(w)
        /\ UNCHANGED <<faults, localFile>>
     \/ /\ ~SplitAlreadyProcessed(s3, Job(w))
        /\ Step(w, "s_fetch")
        /\ UNCHANGED <<faults, localFile>>
     \/ /\ CanFault /\ Fault
        /\ Failed(w)
  /\ UNCHANGED <<queue, nextId, acked, stores, audio, client, loops>>

process_split_check(w) ==
  /\ pc[w] = "s_check"
  /\ \/ /\ SplitAlreadyProcessed(s3, Job(w))
        /\ Returned(w)
        /\ UNCHANGED faults
     \/ /\ ~SplitAlreadyProcessed(s3, Job(w))
        /\ Step(w, "s_fetch")
        /\ UNCHANGED faults
     \/ /\ CanFault /\ Fault
        /\ Step(w, "s_fetch")
  /\ UNCHANGED <<queue, nextId, acked, stores, localFile, audio, client, loops>>

\* download of the source object into tmpdir; a missing object or a transport
\* error raises
process_split_fetch(w) ==
  /\ pc[w] = "s_fetch"
  /\ LET src == SplitSource(Job(w))
         from == IF Get(Job(w), "source_type", "minio") = "s3" THEN s3 ELSE minio
     IN \/ /\ Exists(from, src.bucket, src.key)
           /\ localFile' = [localFile EXCEPT ![w] = from[<<src.bucket, src.key>>]]
           /\ Step(w, IF SourceExt(src.key) # ".wav" THEN "s_convert" ELSE "s_vad")
           /\ UNCHANGED faults
        \/ /\ ~Exists(from, src.bucket, src.key)
           /\ Failed(w)
           /\ UNCHANGED faults
        \/ /\ CanFault /\ Fault
           /\ Failed(w)
  /\ UNCHANGED <<queue, nextId, acked, stores, audio, client, loops>>

\* a convert_to_wav that prints a note when ffmpeg fails and goes on
process_split_convert_lenient(w) ==
  /\ pc[w] = "s_convert"
  /\ \/ /\ localFile' = [localFile EXCEPT ![w] = Audio("wav16k")]
        /\ Step(w, "s_vad")
        /\ UNCHANGED faults
     \/ /\ CanFault /\ Fault
        /\ Step(w, "s_vad")
        /\ UNCHANGED localFile
  /\ UNCHANGED <<queue, nextId, acked, stores, audio, client, loops>>

\* convert_to_wav of process_split: a failing ffmpeg raises
process_split_convert(w) ==
  /\ pc[w] = "s_convert"
  /\ \/ /\ localFile' = [localFile EXCEPT ![w] = Audio("wav16k")]
        /\ Step(w, "s_vad")
        /\ UNCHANGED faults
     \/ /\ CanFault /\ Fault
        /\ Failed(w)
  /\ UNCHANGED <<queue, nextId, acked, stores, audio, client, loops>>

\* a no-speech manifest without the status marker
NoSpeechManifestUnmarked(job) ==
  [kind |-> "manifest", job_id |-> job.job_id, total_segments |-> 0,
   segments |-> <<>>, status |-> ""]

NoSpeechManifest(job) ==
  [kind |-> "manifest", job_id |-> job.job_id, total_segments |-> 0,
   segments |-> <<>>, status |-> "no_speech"]

Manifest(job, n, segs) ==
  [kind |-> "manifest", job_id |-> job.job_id, total_segments |-> n,
   segments |-> segs, status |-> ""]

\* split_audio_with_vad, then either the no-speech manifest or the rendering
\* of the segment files and the submission of one upload future per segment
process_split_vad(w) ==
  /\ pc[w] = "s_vad"
  /\ IF nsegs = 0
     THEN \/ /\ s3' = Put(s3, OutputBucket(Job(w)), MetadataKey(Job(w)), NoSpeechManifest(Job(w)))
             /\ Returned(w)
             /\ UNCHANGED <<faults, localFile>>
          \/ /\ CanFault /\ Fault
             /\ Failed(w)
             /\ UNCHANGED s3
     ELSE /\ pending' = [pending EXCEPT ![w] = 1..nsegs]
          /\ raised' = [raised EXCEPT ![w] = FALSE]
          /\ uploaded' = [uploaded EXCEPT ![w] = <<>>]
          /\ Goto(w, "s_upload")
          /\ UNCHANGED <<s3, faults, localFile>>
  /\ UNCHANGED <<queue, nextId, acked, minio, audio, client, loops>>

\* a collection that records a finished upload twice
CollectTwice(w, i) == Append(Append(uploaded[w], SegmentName(i)), SegmentName(i))

\* what a finished upload future adds to the list `uploaded`: nothing once
\* future.result() has raised and the for-loop over as_completed was left
Collect(w, i) == IF raised[w] THEN uploaded[w] ELSE Append(uploaded[w], SegmentName(i))

\* one upload future completes: upload_segment stored the segment object
upload_segment(w, i) ==
  /\ pc[w] = "s_upload"
  /\ i \in pending[w]
  /\ s3' = Put(s3, OutputBucket(Job(w)), SegmentKey(Job(w), i), [kind |-> "segment", index |-> i])
  /\ pending' = [pending EXCEPT ![w] = @ \ {i}]
  /\ uploaded' = [uploaded EXCEPT ![w] = Collect(w, i)]
  /\ UNCHANGED <<queue, nextId, acked, minio, pc, batch, status, localFile, raised, audio, client, loops, faults>>

\* an upload_segment that swallows its exception and returns seg_info['info']
upload_segment_swallowed(w, i) ==
  /\ pc[w] = "s_upload"
  /\ i \in pending[w]
  /\ CanFault /\ Fault
  /\ pending' = [pending EXCEPT ![w] = @ \ {i}]
  /\ uploaded' = [uploaded EXCEPT ![w] = Append(@, SegmentName(i))]
  /\ UNCHANGED <<queue, nextId, acked, stores, pc, batch, status, localFile, raised, audio, client, loops>>

\* one upload future raises; the executor still waits for the others
upload_segment_raises(w, i) ==
  /\ pc[w] = "s_upload"
  /\ i \in pending[w]
  /\ CanFault /\ Fault
  /\ pending' = [pending EXCEPT ![w] = @ \ {i}]
  /\ raised' = [raised EXCEPT ![w] = TRUE]
  /\ UNCHANGED <<queue, nextId, acked, stores, pc, batch, status, localFile, uploaded, audio, client, loops>>

\* a join that goes on to the manifest whatever the futures returned
ManifestReadyIgnoringFailure(w) == pending[w] = {}

\* every future is done: the exception of a failed one propagates, or the
\* manifest is next
ManifestReady(w) == pending[w] = {} /\ ~raised[w]

process_split_joined(w) ==
  /\ pc[w] = "s_upload"
  /\ pending[w] = {}
  /\ IF ManifestReady(w)
     THEN Step(w, "s_manifest") /\ UNCHANGED localFile
     ELSE Failed(w)
  /\ UNCHANGED <<queue, nextId, acked, stores, audio, client, loops, faults>>

\* s3_client.put_object(Key=f"{output_prefix}/metadata.json", ...)
process_split_manifest(w) ==
  /\ pc[w] = "s_manifest"
  /\ \/ /\ s3' = Put(s3, OutputBucket(Job(w)), MetadataKey(Job(w)),
                     Manifest(Job(w), nsegs, uploaded[w]))
        /\ Returned(w)
        /\ UNCHANGED <<faults, localFile>>
     \/ /\ CanFault /\ Fault
        /\ Failed(w)
        /\ UNCHANGED s3
  /\ UNCHANGED <<queue, nextId, acked, minio, audio, client, loops>>


\* ----------------------------------------------------- segmentation engine
\* Times are Python floats, counted here in ticks of 1/64 second.  A float
\* keeps FloatBits significant bits (53 in CPython): it is m * 2^e, m < 2^FloatBits.
FloatBits == 8
\* the most halvings one interval of a detector output needs
MaxHalvings == 3

RECURSIVE Pow2(_)
Pow2(n) == IF n = 0 THEN 1 ELSE 2 * Pow2(n - 1)

\* n seconds, n quarter seconds
Sec(n) == 64 * n
Quarter(n) == 16 * n

MAX_DURATION_SEC == Sec(30)
\* a minimum duration of 20 seconds
MinDurationLong == Sec(20)
MIN_DURATION_SEC == Sec(1)

\* the exponent of the float nearest to x: the least e with x / 2^e < 2^FloatBits
RECURSIVE Exponent(_)
Exponent(x) == IF x < Pow2(FloatBits) THEN 0 ELSE 1 + Exponent(x \div 2)

\* the float nearest to x, ties to the even significand
Round(x) ==
  LET e == Exponent(x)
      q == x \div Pow2(e)
      r == x % Pow2(e)
      up == 2 * r > Pow2(e) \/ (2 * r = Pow2(e) /\ q % 2 = 1)
  IN (IF up THEN q + 1 ELSE q) * Pow2(e)

\* a + b, a - b and a / 2 on floats
FloatAdd(a, b) == Round(a + b)
FloatSub(a, b) == Round(a - b)
FloatHalf(a) ==
  IF a % 2 = 0 THEN a \div 2
  ELSE IF (a \div 2) % 2 = 0 THEN a \div 2 ELSE a \div 2 + 1

\* what a call gives back: a list, or the RecursionError of a recursion that
\* never reaches its base case
Returns(segs) == [raised |-> FALSE, segs |-> segs]
RecursionError == [raised |-> TRUE, segs |-> <<>>]

\* a split point one tick short of the midpoint
MidOffCentre(seg) ==
  LET mid == FloatHalf(FloatAdd(seg.start, seg.end))
  IN IF mid - seg.start >= 2 THEN mid - 1 ELSE mid

\* mid = (seg['start'] + seg['end']) / 2
Mid(seg) == FloatHalf(FloatAdd(seg.start, seg.end))

\* halves that leave a tick between them
HalvesApart(seg) ==
  <<[start |-> seg.start, end |-> FloatHalf(FloatAdd(seg.start, seg.end))],
    [start |-> FloatHalf(FloatAdd(seg.start, seg.end)) + 1, end |-> seg.end]>>

\* a split a quarter of the way into the segment
HalvesUneven(seg) ==
  <<[start |-> seg.start, end |-> FloatHalf(FloatAdd(seg.start, Mid(seg)))],
    [start |-> FloatHalf(FloatAdd(seg.start, Mid(seg))), end |-> seg.end]>>

\* the two halves chop_to_max_duration recurses on
Halves(seg) == <<[start |-> seg.start, end |-> Mid(seg)], [start |-> Mid(seg), end |-> seg.end]>>

\* a half that is the segment itself: the recursion on it never ends
Bottomless(seg) == Mid(seg) = seg.start \/ Mid(seg) = seg.end

\* the marker the recursion leaves where it never reaches its base case
Unfinished == [start |-> -1, end |-> -1]

\* a recursion that also bisects a segment of exactly max_duration
RECURSIVE ChoppedStrict(_, _)
ChoppedStrict(segments, max_duration) ==
  IF segments = <<>> THEN <<>>
  ELSE (IF FloatSub(Head(segments).end, Head(segments).start) < max_duration
        THEN <<Head(segments)>>
        ELSE IF Bottomless(Head(segments)) THEN <<Unfinished>>
        ELSE ChoppedStrict(Halves(Head(segments)), max_duration))
       \o ChoppedStrict(Tail(segments), max_duration)

\* the list `result` of chop_to_max_duration as the recursion builds it
RECURSIVE Chopped(_, _)
Chopped(segments, max_duration) ==
  IF segments = <<>> THEN <<>>
  ELSE (IF FloatSub(Head(segments).end, Head(segments).start) <= max_duration
        THEN <<Head(segments)>>
        ELSE IF Bottomless(Head(segments)) THEN <<Unfinished>>
        ELSE Chopped(Halves(Head(segments)), max_duration))
       \o Chopped(Tail(segments), max_duration)

\* the call returns the list, or raises when a recursion in it does not end
Outcome(result) ==
  IF \E i \in 1..Len(result) : result[i] = Unfinished THEN RecursionError ELSE Returns(result)

chop_to_max_duration(segments, max_duration) == Outcome(Chopped(segments, max_duration))

\* a filter loop that keeps every segment
RECURSIVE FilterNothing(_)
FilterNothing(final_segments) ==
  IF final_segments = <<>> THEN <<>>
  ELSE <<[start |-> Head(final_segments).start, end |-> Head(final_segments).end,
          duration |-> FloatSub(Head(final_segments).end, Head(final_segments).start)]>>
       \o FilterNothing(Tail(final_segments))

\* "Filter short segments and add duration"
RECURSIVE FilterShort(_)
FilterShort(final_segments) ==
  IF final_segments = <<>> THEN <<>>
  ELSE LET seg == Head(final_segments)
           duration == FloatSub(seg.end, seg.start)
       IN (IF duration >= MIN_DURATION_SEC
           THEN <<[start |-> seg.start, end |-> seg.end, duration |-> duration]>>
           ELSE <<>>) \o FilterShort(Tail(final_segments))

\* no process other than the workers is using the queue client
IdleClient == [pc |-> "idle"]

\* no call of split_audio_with_vad is under way
IdleVad == [pc |-> "idle"]

\* split_audio_with_vad: the detector returned speech_timestamps, then
\* chop_to_max_duration(speech_timestamps, max_duration) returns or raises
chop_call ==
  /\ vad.pc = "detected"
  /\ LET r == chop_to_max_duration(vad.speech_timestamps, vad.max_duration)
     IN vad' = IF r.raised THEN [vad EXCEPT !.pc = "raised"]
               ELSE [vad EXCEPT !.pc = "chopped", !.final_segments = r.segs]
  /\ UNCHANGED <<queue, nextId, acked, stores, pc, batch, status, localFile, splitLocals, nsegs, client, loops, faults>>

\* the filter loop, and the return of the result
split_audio_with_vad ==
  /\ vad.pc = "chopped"
  /\ vad' = [vad EXCEPT !.pc = "returned", !.result = FilterShort(vad.final_segments)]
  /\ UNCHANGED <<queue, nextId, acked, stores, pc, batch, status, localFile, splitLocals, nsegs, client, loops, faults>>

\* ---------------------------------------------------------- download stage
\* process_download: output_path and the bucket / object name parsed from it
OutputPath(job) == Get(job, "output_path", <<"raw-audio", Slash>> \o job.job_id \o <<".wav">>)

DownloadTarget(job) ==
  LET parts == Split1(OutputPath(job))
  IN [bucket |-> IF Len(parts) > 1 THEN parts[1] ELSE <<"raw-audio">>,
      key |-> IF Len(parts) > 1 THEN parts[2] ELSE job.job_id \o <<".wav">>]

\* the message enqueue_split(job_id, raw_audio_path, output_prefix) sends
SplitMessage(job_id, raw_audio_path, output_prefix) ==
  [job_id |-> job_id, raw_audio_path |-> raw_audio_path,
   output_prefix |-> output_prefix, metadata |-> <<>>]

\* object_exists: head_object succeeded; any ClientError reads as "absent"
\* "if object_exists(bucket, object_name)": straight to enqueue_split, else fetch
process_download_exists(w) ==
  /\ pc[w] = "d_exists"
  /\ LET t == DownloadTarget(Job(w))
     IN \/ /\ Exists(minio, t.bucket, t.key)
           /\ Step(w, "d_enqueue")
           /\ UNCHANGED faults
        \/ /\ ~Exists(minio, t.bucket, t.key)
           /\ Step(w, "d_fetch")
           /\ UNCHANGED faults
        \/ /\ Exists(minio, t.bucket, t.key)
           /\ CanFault /\ Fault
           /\ Step(w, "d_fetch")
  /\ UNCHANGED <<queue, nextId, acked, stores, localFile, audio, client, loops>>

\* download_s3: the bucket and key of an s3://bucket/key source_url
S3Source(url) ==
  LET path == IF Len(url) > 0 /\ url[1] = "s3://" THEN Tail(url) ELSE url
      parts == Split1(path)
  IN [bucket |-> parts[1], key |-> IF Len(parts) > 1 THEN parts[2] ELSE <<>>]

\* whether the downloader finds its source
SourceAvailable(job) ==
  IF job.source_type = "s3"
  THEN Exists(minio, S3Source(job.source_url).bucket, S3Source(job.source_url).key)
  ELSE TRUE

\* the file a downloader wrote before convert_to_wav_16k ran on it, and a
\* file of 0 bytes
Fetched == Audio("original")
Empty == [kind |-> "empty"]

\* local_path after a successful conversion (yt-dlp converts by its own
\* post-processor)
Converted == Audio("wav16k")

\* local_path when convert_to_wav_16k fails: gdrive and s3 convert in place
\* and keep what was fetched, url converts from local_path + '.tmp', removes
\* that file and is left without local_path
Unconverted(source_type, fetched) ==
  IF source_type \in {"gdrive", "s3"} THEN fetched ELSE NoFile

\* the downloader for source_type up to its call of convert_to_wav_16k
process_download_fetch(w) ==
  /\ pc[w] = "d_fetch"
  /\ LET job == Job(w)
     IN \/ /\ job.source_type \in {"gdrive", "url", "s3"}
           /\ SourceAvailable(job)
           /\ localFile' = [localFile EXCEPT ![w] = Fetched]
           /\ Step(w, "d_convert")
           /\ UNCHANGED faults
        \/ /\ job.source_type \in {"gdrive", "url", "s3"}
           /\ SourceAvailable(job)
           /\ CanFault /\ Fault
           /\ localFile' = [localFile EXCEPT ![w] = Empty]
           /\ Step(w, "d_convert")
        \/ /\ job.source_type = "youtube"
           /\ localFile' = [localFile EXCEPT ![w] = Converted]
           /\ Step(w, "d_verify")
           /\ UNCHANGED faults
        \/ /\ job.source_type \in {"youtube", "gdrive", "url", "s3"}
           /\ ~SourceAvailable(job) \/ CanFault
           /\ IF SourceAvailable(job) THEN Fault ELSE UNCHANGED faults
           /\ Failed(w)
        \/ /\ job.source_type \notin {"youtube", "gdrive", "url", "s3"}
           /\ Failed(w)
           /\ UNCHANGED faults
  /\ UNCHANGED <<queue, nextId, acked, stores, audio, client, loops>>

\* convert_to_wav_16k: ffmpeg succeeds and its output replaces output_path, or
\* it fails (always on a file of 0 bytes) and nothing is raised
convert_to_wav_16k(w) ==
  /\ pc[w] = "d_convert"
  /\ \/ /\ localFile[w] # Empty
        /\ localFile' = [localFile EXCEPT ![w] = Converted]
        /\ UNCHANGED faults
     \/ /\ localFile[w] = Empty \/ CanFault
        /\ IF localFile[w] = Empty THEN UNCHANGED faults ELSE Fault
        /\ localFile' = [localFile EXCEPT ![w] = Unconverted(Job(w).source_type, @)]
  /\ Step(w, "d_verify")
  /\ UNCHANGED <<queue, nextId, acked, stores, audio, client, loops>>

\* a process_download that stores whatever the downloader left
process_download_verify_skipped(w) ==
  /\ pc[w] = "d_verify"
  /\ Step(w, "d_store") /\ UNCHANGED localFile
  /\ UNCHANGED <<queue, nextId, acked, stores, audio, client, loops, faults>>

\* "Verify file exists and has content"
process_download_verify(w) ==
  /\ pc[w] = "d_verify"
  /\ IF localFile[w] \in {NoFile, Empty}
     THEN Failed(w)
     ELSE Step(w, "d_store") /\ UNCHANGED localFile
  /\ UNCHANGED <<queue, nextId, acked, stores, audio, client, loops, faults>>

\* upload_file(local_path, bucket, object_name)
process_download_store(w) ==
  /\ pc[w] = "d_store"
  /\ \/ /\ minio' = Put(minio, DownloadTarget(Job(w)).bucket, DownloadTarget(Job(w)).key, localFile[w])
        /\ Step(w, "d_enqueue")
        /\ UNCHANGED <<faults, localFile>>
     \/ /\ CanFault /\ Fault
        /\ Failed(w)
        /\ UNCHANGED minio
  /\ UNCHANGED <<queue, nextId, acked, s3, audio, client, loops>>

\* a process_download that catches the exception of enqueue_split and returns
process_download_enqueue_swallowed(w) ==
  /\ pc[w] = "d_enqueue"
  /\ \/ /\ SendMessage(QSplit, SplitMessage(Job(w).job_id, OutputPath(Job(w)), Job(w).job_id))
        /\ Returned(w)
        /\ UNCHANGED <<faults, localFile>>
     \/ /\ CanFault /\ Fault
        /\ Returned(w)
        /\ UNCHANGED <<queue, nextId, localFile>>
  /\ UNCHANGED <<acked, stores, audio, client, loops>>

\* enqueue_split(job_id, output_path, job_id), then process_download returns
process_download_enqueue(w) ==
  /\ pc[w] = "d_enqueue"
  /\ \/ /\ SendMessage(QSplit, SplitMessage(Job(w).job_id, OutputPath(Job(w)), Job(w).job_id))
        /\ Returned(w)
        /\ UNCHANGED <<faults, localFile>>
     \/ /\ CanFault /\ Fault
        /\ Failed(w)
        /\ UNCHANGED <<queue, nextId>>
  /\ UNCHANGED <<acked, stores, audio, client, loops>>


\* a destination key that carries the source bucket as well
UploadKeyWithBucket(job) == <<"raw-audio", Slash>> \o job.source_bucket \o <<Slash>> \o job.source_key

\* ------------------------------------------------------------ upload stage
\* s3_key = f"raw-audio/{source_key}"
UploadKey(job) == <<"raw-audio", Slash>> \o job.source_key

\* the key list_objects_v2(Prefix=s3_key, MaxKeys=1) returns: keys come in
\* byte order, so the exact key precedes every longer key with that prefix
FirstListed(store, bucket, prefix) ==
  IF prefix \in KeysWithPrefix(store, bucket, prefix) THEN {prefix}
  ELSE KeysWithPrefix(store, bucket, prefix)

\* a check that skips on any listed key
UploadPrefixExists(store, job) ==
  FirstListed(store, AWS_S3_BUCKET, UploadKey(job)) # {}

\* "Check if already uploaded": skip when the listed key is s3_key
UploadAlreadyExists(store, job) ==
  \E k \in FirstListed(store, AWS_S3_BUCKET, UploadKey(job)) : k = UploadKey(job)

process_upload_check(w) ==
  /\ pc[w] = "u_check"
  /\ \/ /\ UploadAlreadyExists(s3, Job(w))
        /\ Returned(w)
        /\ UNCHANGED faults
     \/ /\ ~UploadAlreadyExists(s3, Job(w))
        /\ Step(w, "u_get")
        /\ UNCHANGED faults
     \/ /\ CanFault /\ Fault
        /\ Step(w, "u_get")
  /\ UNCHANGED <<queue, nextId, acked, stores, localFile, audio, client, loops>>

\* download_from_minio: get_object of the source
download_from_minio(w) ==
  /\ pc[w] = "u_get"
  /\ LET job == Job(w)
     IN \/ /\ Exists(minio, job.source_bucket, job.source_key)
           /\ localFile' = [localFile EXCEPT ![w] = minio[<<job.source_bucket, job.source_key>>]]
           /\ Step(w, "u_put")
           /\ UNCHANGED faults
        \/ /\ ~Exists(minio, job.source_bucket, job.source_key)
           /\ Failed(w)
           /\ UNCHANGED faults
        \/ /\ CanFault /\ Fault
           /\ Failed(w)
  /\ UNCHANGED <<queue, nextId, acked, stores, audio, client, loops>>

\* upload_to_s3(s3_client, local_path, output_bucket, s3_key)
upload_to_s3(w) ==
  /\ pc[w] = "u_put"
  /\ \/ /\ s3' = Put(s3, AWS_S3_BUCKET, UploadKey(Job(w)), localFile[w])
        /\ Returned(w)
        /\ UNCHANGED <<faults, localFile>>
     \/ /\ CanFault /\ Fault
        /\ Failed(w)
        /\ UNCHANGED s3
  /\ UNCHANGED <<queue, nextId, acked, minio, audio, client, loops>>


\* ------------------------------------------------------------------ inputs
SourceBucket == <<"audio">>
SourceKey == <<"amdo", Slash, "f1", ".mp3">>
MissingKey == <<"amdo", Slash, "f0", ".mp3">>

\* output_path as the scheduler sets it, f"raw-audio/{job_id}.wav", and an
\* output_path that names no bucket
SchedulerPath == <<"raw-audio", Slash, "j1", ".wav">>
OutputPaths == {SchedulerPath, <<"j1", ".wav">>}

\* a DownloadJob body as enqueue_download builds it
DownloadJob(t, p) ==
  [job_id |-> <<"j1">>, source_type |-> t,
   source_url |-> <<"s3://">> \o SourceBucket \o <<Slash>> \o SourceKey,
   output_path |-> p, metadata |-> <<>>]

DownloadJobs == {DownloadJob(t, p) : t \in {"youtube", "gdrive", "url", "s3", "ftp"}, p \in OutputPaths}

\* SplitJob bodies: the shape enqueue_jobs sends, the legacy shape the
\* scheduler sends through enqueue_split, and the legacy shape process_download
\* sends for an output_path that names no bucket
SplitJobs ==
  {[job_id |-> <<"b1">>, source_type |-> "minio", source_bucket |-> SourceBucket,
    source_key |-> SourceKey, output_bucket |-> AWS_S3_BUCKET,
    output_prefix |-> <<"amdo", Slash, "f1">>, max_duration |-> 30, metadata |-> <<>>],
   SplitMessage(<<"amdo_f1">>, SourceBucket \o <<Slash>> \o SourceKey, <<"amdo_f1">>),
   SplitMessage(<<"j1">>, <<"j1", ".wav">>, <<"j1">>)}

\* UploadJob bodies as enqueue_uploads builds them, for a source that is in
\* the intermediate store and for one that is not
UploadJobs ==
  {[source_bucket |-> SourceBucket, source_key |-> SourceKey],
   [source_bucket |-> SourceBucket, source_key |-> MissingKey]}

\* the intermediate store holds the source audio of the batch
InitialMinio == Put(EmptyStore, SourceBucket, SourceKey, Audio("mp3"))

\* the output store is empty, or holds an unrelated object whose key extends
\* the upload destination key
InitialS3 ==
  {EmptyStore,
   Put(EmptyStore, AWS_S3_BUCKET, <<"raw-audio", Slash>> \o SourceKey \o <<".bak">>, Audio("mp3"))}

\* the workers of `fleet` are running and polling, the others are not started
InitWith(q, body, n, out, fleet) ==
  /\ queue = [x \in Queues |-> IF x = q THEN {[id |-> 1, body |-> body, visible |-> TRUE, timeout |-> 0]} ELSE {}]
  /\ nextId = 2
  /\ acked = {}
  /\ minio = InitialMinio
  /\ s3 = out
  /\ pc = [w \in Workers |-> IF w \in fleet THEN "poll" ELSE "stopped"]
  /\ batch = [w \in Workers |-> <<>>]
  /\ status = [w \in Workers |-> ""]
  /\ localFile = [w \in Workers |-> NoFile]
  /\ pending = [w \in Workers |-> {}]
  /\ raised = [w \in Workers |-> FALSE]
  /\ uploaded = [w \in Workers |-> <<>>]
  /\ nsegs = n
  /\ loops = [w \in Workers |-> IdleLoop]
  /\ faults = 0

\* the queues are empty, the intermediate store is `store`, the workers of
\* `fleet` are running
InitEmpty(store, n, fleet) ==
  /\ queue = [x \in Queues |-> {}]
  /\ nextId = 1
  /\ acked = {}
  /\ minio = store
  /\ s3 = EmptyStore
  /\ pc = [w \in Workers |-> IF w \in fleet THEN "poll" ELSE "stopped"]
  /\ batch = [w \in Workers |-> <<>>]
  /\ status = [w \in Workers |-> ""]
  /\ localFile = [w \in Workers |-> NoFile]
  /\ pending = [w \in Workers |-> {}]
  /\ raised = [w \in Workers |-> FALSE]
  /\ uploaded = [w \in Workers |-> <<>>]
  /\ nsegs = n
  /\ loops = [w \in Workers |-> IdleLoop]
  /\ faults = 0
  /\ vad = IdleVad

\* one job of a stage is enqueued and the workers of that stage are running
InitDownload == \E j \in DownloadJobs : InitWith(QDownload, j, 1, EmptyStore, DownloadWorkers) /\ vad = IdleVad /\ client = IdleClient
InitSplit == \E j \in SplitJobs, n \in 0..MaxSegs : InitWith(QSplit, j, n, EmptyStore, SplitWorkers) /\ vad = IdleVad /\ client = IdleClient
InitUpload == \E j \in UploadJobs, out \in InitialS3 : InitWith(QUpload, j, 0, out, UploadWorkers) /\ vad = IdleVad /\ client = IdleClient

\* detector outputs: up to two speech intervals in time order.  The
\* intervals lie between instants a quarter second apart, or are the 75 seconds
\* of the regression fixture, or lie between two neighbouring floats further out,
\* or are a little over 2 seconds, or are a little over 30 seconds with a
\* midpoint that is rounded
Big == Pow2(FloatBits + 5)
Instants == {Quarter(i) : i \in 0..8}
OverTwoSeconds == [start |-> 0, end |-> Sec(2) + Quarter(1)]
RoundedMidpoint == [start |-> Sec(1), end |-> Sec(31) + Pow2(FloatBits - 5)]
Intervals ==
  {x \in [start : Instants, end : Instants] : x.start <= x.end}
    \cup {[start |-> 0, end |-> Sec(75)], [start |-> Big, end |-> Big + Quarter(2)],
          OverTwoSeconds, RoundedMidpoint}
DetectorOutputs ==
  {<<>>} \cup {<<x>> : x \in Intervals}
         \cup {z \in {<<x, y>> : x, y \in Intervals} : z[1].end <= z[2].start}
MaxDurations == {Quarter(1), Quarter(2), Quarter(3), Quarter(5), 2 * MIN_DURATION_SEC, MAX_DURATION_SEC}

\* a SplitJob is being handled somewhere: the detector has just returned
InitVad ==
  \E speech \in DetectorOutputs, max \in MaxDurations :
    /\ \A i \in 1..Len(speech) : speech[i].end - speech[i].start <= max * Pow2(MaxHalvings)
    /\ InitWith(QSplit, SplitMessage(<<"amdo_f1">>, SourceBucket \o <<Slash>> \o SourceKey, <<"amdo_f1">>),
                0, EmptyStore, {})
    /\ vad = [pc |-> "detected", speech_timestamps |-> speech, max_duration |-> max,
              final_segments |-> <<>>, result |-> <<>>]
    /\ client = IdleClient

NextVad == chop_call \/ split_audio_with_vad

SpecVad == InitVad /\ [][NextVad]_vars

\* ---------------------------------------------------------- full queues
\* a queue that holds one message more than the loop asks for in one receive,
\* and one worker of that stage running; the worker drains the queue before
\* any visibility timeout elapses
Backlog(w) == MaxMessagesOf(w) + 1

InitPollWith(w, bodies, n) ==
  /\ queue = [x \in Queues |->
                IF x = QueueOf(w)
                THEN {[id |-> i, body |-> bodies[((i - 1) % Len(bodies)) + 1], visible |-> TRUE, timeout |-> 0] :
                        i \in 1..Backlog(w)}
                ELSE {}]
  /\ nextId = Backlog(w) + 1
  /\ acked = {}
  /\ minio = InitialMinio
  /\ s3 = EmptyStore
  /\ pc = [v \in Workers |-> IF v = w THEN "poll" ELSE "stopped"]
  /\ batch = [v \in Workers |-> <<>>]
  /\ status = [v \in Workers |-> ""]
  /\ localFile = [v \in Workers |-> NoFile]
  /\ pending = [v \in Workers |-> {}]
  /\ raised = [v \in Workers |-> FALSE]
  /\ uploaded = [v \in Workers |-> <<>>]
  /\ nsegs = n
  /\ loops = [v \in Workers |-> IdleLoop]
  /\ faults = 0
  /\ vad = IdleVad
  /\ client = IdleClient

InitPoll ==
  \/ InitPollWith("d1", <<DownloadJob("s3", SchedulerPath), DownloadJob("ftp", SchedulerPath)>>, 1)
  \/ InitPollWith("s1", <<SplitMessage(<<"amdo_f1">>, SourceBucket \o <<Slash>> \o SourceKey, <<"amdo_f1">>),
                          SplitMessage(<<"j1">>, <<"j1", ".wav">>, <<"j1">>)>>, 1)
  \/ InitPollWith("u1", <<[source_bucket |-> SourceBucket, source_key |-> SourceKey],
                          [source_bucket |-> SourceBucket, source_key |-> MissingKey]>>, 0)
  \/ InitPollWith("s2", <<SplitMessage(<<"amdo_f1">>, SourceBucket \o <<Slash>> \o SourceKey, <<"amdo_f1">>),
                          NotJson>>, 0)

NextPoll ==
  \/ \E w \in Workers : receive_messages(w)
  \/ \E w \in Workers : time_sleep(w)
  \/ \E w \in Workers : LoopMsg(w)
  \/ \E w \in SplitWorkers \cup UploadWorkers : change_message_visibility(w)
  \/ \E w \in DownloadWorkers : process_download_exists(w)
  \/ \E w \in DownloadWorkers : process_download_fetch(w)
  \/ \E w \in DownloadWorkers : convert_to_wav_16k(w)
  \/ \E w \in DownloadWorkers : process_download_verify(w)
  \/ \E w \in DownloadWorkers : process_download_store(w)
  \/ \E w \in DownloadWorkers : process_download_enqueue(w)
  \/ \E w \in SplitWorkers : process_split_check(w)
  \/ \E w \in SplitWorkers : process_split_fetch(w)
  \/ \E w \in SplitWorkers : process_split_convert(w)
  \/ \E w \in SplitWorkers : process_split_vad(w)
  \/ \E w \in SplitWorkers, i \in 1..MaxSegs : upload_segment(w, i)
  \/ \E w \in SplitWorkers, i \in 1..MaxSegs : upload_segment_raises(w, i)
  \/ \E w \in SplitWorkers : process_split_joined(w)
  \/ \E w \in SplitWorkers : process_split_manifest(w)
  \/ \E w \in UploadWorkers : process_upload_check(w)
  \/ \E w \in UploadWorkers : download_from_minio(w)
  \/ \E w \in UploadWorkers : upload_to_s3(w)
  \/ \E w \in Workers : delete_message(w)

SpecPoll == InitPoll /\ [][NextPoll]_vars

\* -------------------------------------------------------- waiting messages
\* The visibility timeout of a message that waits in the batch of worker w at
\* position k elapses while w is inside the stage function of an earlier
\* message.  The timeout runs from the receive; the k - 1 stage invocations
\* before the message take up to ExtendedVisibility seconds each, which is
\* the time every invocation is given.
VisibilityTimeoutWhileWaiting(w, k) ==
  /\ pc[w] \notin {"poll", "loop", "extend", "delete", "stopped", "exited"}
  /\ k \in 2..Len(batch[w])
  /\ ~batch[w][k].stale
  /\ \E m \in queue[QueueOf(w)] :
       /\ m.id = batch[w][k].id /\ ~m.visible
       /\ m.timeout < (k - 1) * ExtendedVisibility
       /\ queue' = [queue EXCEPT ![QueueOf(w)] =
            {IF x = m THEN [x EXCEPT !.visible = TRUE, !.timeout = 0] ELSE x : x \in @}]
  /\ UNCHANGED <<nextId, acked, stores, pc, batch, status, localFile, splitLocals, audio, client, loops, faults>>

\* two SplitJobs are queued and both split workers are running
InitWaiting ==
  /\ InitWith(QSplit, SplitMessage(<<"amdo_f1">>, SourceBucket \o <<Slash>> \o SourceKey, <<"amdo_f1">>),
              1, EmptyStore, SplitWorkers)
  /\ vad = IdleVad /\ client = IdleClient

\* the second SplitJob arrives
enqueue_second ==
  /\ nextId = 2
  /\ SendMessage(QSplit, SplitMessage(<<"j1">>, <<"j1", ".wav">>, <<"j1">>))
  /\ UNCHANGED <<acked, stores, pc, batch, status, localFile, splitLocals, audio, client, loops, faults>>

\* the split stage, every stage invocation within its ExtendedVisibility
\* seconds: no timeout of a message elapses while its own stage function runs
NextWaiting ==
  \/ enqueue_second
  \/ \E w \in SplitWorkers : receive_messages(w)
  \/ \E w \in SplitWorkers : LoopMsg(w)
  \/ \E w \in SplitWorkers : change_message_visibility(w)
  \/ \E w \in SplitWorkers : process_split_check(w)
  \/ \E w \in SplitWorkers : process_split_fetch(w)
  \/ \E w \in SplitWorkers : process_split_convert(w)
  \/ \E w \in SplitWorkers : process_split_vad(w)
  \/ \E w \in SplitWorkers, i \in 1..MaxSegs : upload_segment(w, i)
  \/ \E w \in SplitWorkers : process_split_joined(w)
  \/ \E w \in SplitWorkers : process_split_manifest(w)
  \/ \E w \in SplitWorkers : delete_message(w)
  \/ \E w \in SplitWorkers, k \in 2..5 : VisibilityTimeoutWhileWaiting(w, k)

SpecWaiting == InitWaiting /\ [][NextWaiting]_vars

\* ------------------------------------------------------------ queue client
\* calls of get_or_create_queue one process makes
MaxCalls == 3

\* the URL the queue service gives the queue of that name
QueueUrl(queue_name) == <<"https://sqs.us-east-1.amazonaws.com/123456789012/", queue_name>>

\* everything but the client is at rest
PipelineUnchanged ==
  UNCHANGED <<queue, nextId, acked, stores, pc, batch, status, localFile, splitLocals, audio, loops, faults>>

\* a client that looks the queue up on every call
CachedNever(queue_name) == FALSE

\* "if queue_name in _queue_urls"
Cached(queue_name) == queue_name \in DOMAIN client.queue_urls

\* the state of the process after a call that made `requests` requests to the
\* queue service
AfterCall(queue_name, outcome, url, requests, created, cache, service) ==
  [client EXCEPT
     !.calls = @ + 1,
     !.contacts = @ + requests,
     !.creates = [@ EXCEPT ![queue_name] = IF created THEN @ + 1 ELSE @],
     !.queue_urls = cache,
     !.service = service,
     !.last = [name |-> queue_name, outcome |-> outcome, url |-> url]]

\* _queue_urls[queue_name] = queue_url
Cache(queue_name) ==
  [n \in DOMAIN client.queue_urls \cup {queue_name} |->
     IF n = queue_name THEN QueueUrl(queue_name) ELSE client.queue_urls[n]]

\* one call of get_or_create_queue: the cached URL; or get_queue_url finds the
\* queue, or raises something other than QueueDoesNotExist; or it reports the
\* queue missing and create_queue creates it, or raises (the queue made or not)
get_or_create_queue(queue_name) ==
  /\ client.pc = "resolving"
  /\ client.calls < MaxCalls
  /\ \/ /\ Cached(queue_name)
        /\ client' = AfterCall(queue_name, "returned", client.queue_urls[queue_name], 0, FALSE,
                               client.queue_urls, client.service)
     \/ /\ ~Cached(queue_name)
        /\ queue_name \in client.service
        /\ client' = AfterCall(queue_name, "returned", QueueUrl(queue_name), 1, FALSE,
                               Cache(queue_name), client.service)
     \/ /\ ~Cached(queue_name)
        /\ client' = AfterCall(queue_name, "raised", <<>>, 1, FALSE, client.queue_urls, client.service)
     \/ /\ ~Cached(queue_name)
        /\ queue_name \notin client.service
        /\ client' = AfterCall(queue_name, "returned", QueueUrl(queue_name), 2, TRUE,
                               Cache(queue_name), client.service \cup {queue_name})
     \/ /\ ~Cached(queue_name)
        /\ queue_name \notin client.service
        /\ \E made \in SUBSET {queue_name} :
             client' = AfterCall(queue_name, "raised", <<>>, 2, made # {}, client.queue_urls,
                                 client.service \cup made)
  /\ PipelineUnchanged

\* another process of the pipeline resolves a queue that does not exist yet
\* and creates it (nothing in the pipeline deletes a queue)
created_elsewhere(queue_name) ==
  /\ client.pc = "resolving"
  /\ queue_name \notin client.service
  /\ client' = [client EXCEPT !.service = @ \cup {queue_name}]
  /\ PipelineUnchanged

\* a process that has resolved no queue yet; some of the queues exist
InitQueue ==
  \E existing \in SUBSET Queues :
    /\ InitWith(QSplit, SplitMessage(<<"amdo_f1">>, SourceBucket \o <<Slash>> \o SourceKey, <<"amdo_f1">>),
                0, EmptyStore, {})
    /\ vad = IdleVad
    /\ client = [pc |-> "resolving", queue_urls |-> [n \in {} |-> <<>>], service |-> existing,
                 calls |-> 0, contacts |-> 0, creates |-> [n \in Queues |-> 0],
                 last |-> [name |-> "", outcome |-> "", url |-> <<>>]]

NextQueue ==
  \/ \E queue_name \in Queues : get_or_create_queue(queue_name)
  \/ \E queue_name \in Queues : created_elsewhere(queue_name)

SpecQueue == InitQueue /\ [][NextQueue]_vars

\* ---------------------------------------------------------- batch enqueue
\* most files one run of enqueue_jobs is given
MaxFiles == 12

\* "Send in batches of 10 (SQS limit)"
SQS_BATCH_LIMIT == 10

BatchId == "20261106-074500"

\* f"{batch_id}-{n:05d}"
BatchJobId(n) ==
  <<BatchId, "-", Digit((n \div 10000) % 10), Digit((n \div 1000) % 10),
    Digit((n \div 100) % 10), Digit((n \div 10) % 10), Digit(n % 10)>>

\* the entries of the chunk files[i:i+10]: entry j carries Id str(j) and the
\* job_id numbered enqueued + j
Entries(i, enqueued, files) ==
  [k \in 1..(IF files - i < SQS_BATCH_LIMIT THEN files - i ELSE SQS_BATCH_LIMIT) |->
     [Id |-> Digit(k - 1), job_id |-> BatchJobId(enqueued + (k - 1))]]

\* what send_message_batch may answer for a chunk of n entries: the positions
\* of the entries it accepted (all, none, all but the first, all but the last)
Answers(n) == {1..n, {}, 2..n, 1..(n - 1)}

\* the job_ids of the accepted entries, in the order of the chunk
RECURSIVE AcceptedIds(_, _, _)
AcceptedIds(entries, ok, k) ==
  IF k > Len(entries) THEN <<>>
  ELSE (IF k \in ok THEN <<entries[k].job_id>> ELSE <<>>) \o AcceptedIds(entries, ok, k + 1)

\* one pass of "for i in range(0, len(files), 10)": the chunk is sent and the
\* counters follow the response, or the call raises and the chunk is counted
\* as failed
enqueue_jobs_send ==
  /\ client.pc = "enqueuing"
  /\ client.i < client.files
  /\ LET entries == Entries(client.i, client.enqueued, client.files)
     IN \/ \E ok \in Answers(Len(entries)) :
             client' = [client EXCEPT
                          !.i = @ + SQS_BATCH_LIMIT,
                          !.enqueued = @ + Cardinality(ok),
                          !.failed = @ + (Len(entries) - Cardinality(ok)),
                          !.accepted = @ \o AcceptedIds(entries, ok, 1)]
        \/ client' = [client EXCEPT !.i = @ + SQS_BATCH_LIMIT, !.failed = @ + Len(entries)]
  /\ PipelineUnchanged

\* "return enqueued, failed"
enqueue_jobs_return ==
  /\ client.pc = "enqueuing"
  /\ client.i >= client.files
  /\ client' = [client EXCEPT !.pc = "enqueued"]
  /\ PipelineUnchanged

\* enqueue_jobs has been called with a list of files
InitEnqueue ==
  \E n \in 0..MaxFiles :
    /\ InitWith(QSplit, SplitMessage(<<"amdo_f1">>, SourceBucket \o <<Slash>> \o SourceKey, <<"amdo_f1">>),
                0, EmptyStore, {})
    /\ vad = IdleVad
    /\ client = [pc |-> "enqueuing", files |-> n, i |-> 0, enqueued |-> 0, failed |-> 0,
                 accepted |-> <<>>]

NextEnqueue == enqueue_jobs_send \/ enqueue_jobs_return

SpecEnqueue == InitEnqueue /\ [][NextEnqueue]_vars

\* ---------------------------------------------------------- output prefixes
\* enqueue_jobs: output_prefix = f"{collection}/{filename}", the collection
\* being source_key.split('/')[0] ('unknown' for a key without "/") and the
\* filename os.path.splitext(parts[-1])[0]
BatchOutputPrefix(source_key) ==
  LET collection == IF FirstSlash(source_key) = 0 THEN <<"unknown">>
                    ELSE SubSeq(source_key, 1, FirstSlash(source_key) - 1)
      last == SubSeq(source_key, LastSlash(source_key) + 1, Len(source_key))
      filename == IF Len(last) > 1 /\ last[Len(last)] \in {".wav", ".mp3"}
                  THEN SubSeq(last, 1, Len(last) - 1) ELSE last
  IN collection \o <<Slash>> \o filename

\* the message enqueue_jobs builds for the file at position n of its list
BatchMessage(n, source_key) ==
  [job_id |-> BatchJobId(n), source_type |-> "minio", source_bucket |-> SourceBucket,
   source_key |-> source_key, output_bucket |-> AWS_S3_BUCKET,
   output_prefix |-> BatchOutputPrefix(source_key), max_duration |-> 30, metadata |-> <<>>]

\* keys of audio files in the source bucket
BatchKeys ==
  {SourceKey, <<"amdo", Slash, "f1", ".wav">>, <<"amdo", Slash, "f2", ".mp3">>,
   <<"amdo", Slash, "a", Slash, "f1", ".mp3">>, <<"kham", Slash, "f1", ".mp3">>, <<"f1", ".mp3">>}

\* enqueue_jobs for the two audio files the listing of the source bucket
\* returned: one send_message_batch, which the queue accepts
enqueue_jobs_files ==
  /\ queue[QSplit] = {} /\ nextId = 1
  /\ \E files \in Orders(AudioFiles(SourceBucket)) :
       /\ queue' = [queue EXCEPT ![QSplit] =
            {[id |-> k, body |-> BatchMessage(k - 1, files[k]), visible |-> TRUE, timeout |-> 0] :
               k \in 1..Len(files)}]
       /\ nextId' = Len(files) + 1
  /\ UNCHANGED <<acked, stores, pc, batch, status, localFile, splitLocals, audio, client, loops, faults>>

\* the source bucket holds two audio files and one split worker is running
InitPrefix ==
  \E a, b \in BatchKeys, n \in 1..MaxSegs :
    /\ a # b
    /\ InitEmpty(Put(Put(EmptyStore, SourceBucket, a, Audio("mp3")), SourceBucket, b, Audio("mp3")),
                 n, {"s1"})
    /\ client = IdleClient

NextPrefix ==
  \/ enqueue_jobs_files
  \/ \E w \in SplitWorkers : receive_messages(w)
  \/ \E w \in SplitWorkers : LoopMsg(w)
  \/ \E w \in SplitWorkers : change_message_visibility(w)
  \/ \E w \in SplitWorkers : process_split_check(w)
  \/ \E w \in SplitWorkers : process_split_fetch(w)
  \/ \E w \in SplitWorkers : process_split_convert(w)
  \/ \E w \in SplitWorkers : process_split_vad(w)
  \/ \E w \in SplitWorkers, i \in 1..MaxSegs : upload_segment(w, i)
  \/ \E w \in SplitWorkers : process_split_joined(w)
  \/ \E w \in SplitWorkers : process_split_manifest(w)
  \/ \E w \in SplitWorkers : delete_message(w)

SpecPrefix == InitPrefix /\ [][NextPrefix]_vars

\* ------------------------------------------------------------ send calls
\* most messages one call of send_batch is given
MaxBatch == 12

\* str(i)
Str(i) == IF i < 10 THEN <<Digit(i)>> ELSE <<Digit((i \div 10) % 10), Digit(i % 10)>>

\* queue_url and queue_url.endswith('.fifo')
is_fifo_queue(queue_url) == Len(queue_url) > 0 /\ queue_url[Len(queue_url)] = ".fifo"

\* the value of a keyword argument that is passed as None
None == <<"None">>

\* the sqs.send_message request of enqueue_download and of enqueue_split
SendMessageRequest(queue_url, message) ==
  [QueueUrl |-> queue_url, MessageBody |-> message,
   MessageGroupId |-> IF is_fifo_queue(queue_url) THEN message.job_id ELSE None,
   MessageDeduplicationId |-> IF is_fifo_queue(queue_url) THEN message.job_id ELSE None]

\* a send_batch that passes every message on
Untruncated(messages) == messages

\* messages[:10]
Truncated(messages) == SubSeq(messages, 1, IF Len(messages) < 10 THEN Len(messages) ELSE 10)

\* the entry send_batch builds for messages[i] (i counted from 0)
Entry(queue_url, msg, i) ==
  LET entry == [Id |-> Get(msg, "Id", Str(i)), MessageBody |-> Get(msg, "MessageBody", msg)]
  IN IF is_fifo_queue(queue_url)
     THEN [Id |-> entry.Id, MessageBody |-> entry.MessageBody,
           MessageGroupId |-> Get(msg, "MessageGroupId", <<"default">>),
           MessageDeduplicationId |-> Get(msg, "Id", Str(i))]
     ELSE entry

BatchEntries(queue_url, messages) ==
  [k \in 1..Len(Truncated(messages)) |-> Entry(queue_url, Truncated(messages)[k], k - 1)]

\* the Ids of the entries at the positions in `at`, in the order of the entries
RECURSIVE IdsAt(_, _, _)
IdsAt(entries, at, k) ==
  IF k > Len(entries) THEN <<>>
  ELSE (IF k \in at THEN <<entries[k].Id>> ELSE <<>>) \o IdsAt(entries, at, k + 1)

\* the service takes a batch of 1 to 10 entries whose Ids differ
Acceptable(entries) ==
  /\ Len(entries) \in 1..10
  /\ \A a, b \in 1..Len(entries) : entries[a].Id = entries[b].Id => a = b

\* the job a caller enqueues as number k, and the shapes it may hand to
\* send_batch: the job dict itself, the dict wrapped with an Id, the same with
\* a group key; the first message wrapped with Id "1" and the others bare
BatchJob(k) == SplitMessage(BatchJobId(k), SourceBucket \o <<Slash>> \o SourceKey, BatchJobId(k))
Shapes == {"bare", "wrapped", "grouped", "mixed"}
Message(shape, k) ==
  IF shape = "wrapped" THEN [Id |-> BatchJobId(k), MessageBody |-> BatchJob(k)]
  ELSE IF shape = "grouped"
       THEN [Id |-> BatchJobId(k), MessageBody |-> BatchJob(k), MessageGroupId |-> BatchJobId(k)]
  ELSE IF shape = "mixed" /\ k = 1 THEN [Id |-> Str(1), MessageBody |-> BatchJob(k)]
  ELSE BatchJob(k)
Messages(shape, n) == [k \in 1..n |-> Message(shape, k)]

\* the call that made one sqs.send_message request for `message`
Sent(op, message) ==
  [op |-> op, messages |-> <<message>>,
   entries |-> <<SendMessageRequest(client.queue_url, message)>>,
   outcome |-> "returned", successful |-> <<>>, failed |-> <<>>]

\* enqueue_download(job_id, source_type, source_url, output_path)
enqueue_download(message) ==
  /\ client.pc = "sending"
  /\ client' = [client EXCEPT !.last = Sent("enqueue_download", message)]
  /\ PipelineUnchanged

\* enqueue_split(job_id, raw_audio_path, output_prefix)
enqueue_split(message) ==
  /\ client.pc = "sending"
  /\ client' = [client EXCEPT !.last = Sent("enqueue_split", message)]
  /\ PipelineUnchanged

\* send_batch(queue_url, messages): the entries, the send_message_batch
\* request, and the two lists of the response; the request raises when the
\* service does not take the batch, or on a transport error
send_batch(messages) ==
  /\ client.pc = "sending"
  /\ LET entries == BatchEntries(client.queue_url, messages)
         call == [op |-> "send_batch", messages |-> messages, entries |-> entries,
                  outcome |-> "raised", successful |-> <<>>, failed |-> <<>>]
     IN \/ /\ Acceptable(entries)
           /\ \E ok \in Answers(Len(entries)) :
                client' = [client EXCEPT !.last =
                  [call EXCEPT !.outcome = "returned",
                               !.successful = IdsAt(entries, ok, 1),
                               !.failed = IdsAt(entries, (1..Len(entries)) \ ok, 1)]]
        \/ client' = [client EXCEPT !.last = call]
  /\ PipelineUnchanged

\* a process about to send to a standard or to a FIFO queue
InitSend ==
  \E url \in {QueueUrl(QSplit), QueueUrl(QSplit) \o <<".fifo">>} :
    /\ InitWith(QSplit, SplitMessage(<<"amdo_f1">>, SourceBucket \o <<Slash>> \o SourceKey, <<"amdo_f1">>),
                0, EmptyStore, {})
    /\ vad = IdleVad
    /\ client = [pc |-> "sending", queue_url |-> url,
                 last |-> [op |-> "", messages |-> <<>>, entries |-> <<>>, outcome |-> "",
                           successful |-> <<>>, failed |-> <<>>]]

NextSend ==
  \/ \E j \in DownloadJobs : enqueue_download(j)
  \/ \E k \in 1..2 : enqueue_split(BatchJob(k))
  \/ \E shape \in Shapes, n \in 0..MaxBatch : send_batch(Messages(shape, n))

SpecSend == InitSend /\ [][NextSend]_vars

\* -------------------------------------------------------- split job shapes
\* tokens in an object key
MaxKey == 3

\* bucket names (no "/" in them) and object keys, "/" anywhere in the key
BucketNames == {<<"audio">>, <<"raw", "-audio">>}
ObjectKeys == UNION {[1..n -> {"amdo", ".mp3", Slash}] : n \in 1..MaxKey}

\* the SplitJob a producer sends for the object (bucket, key): the legacy
\* shape of enqueue_split as schedule_split_jobs_from_bucket calls it, the
\* shape with source_bucket and source_key, and a message that has both
SplitJobOf(shape, bucket, key) ==
  IF shape = "legacy"
  THEN SplitMessage(<<"amdo_f1">>, bucket \o <<Slash>> \o key, <<"amdo_f1">>)
  ELSE IF shape = "new"
  THEN [job_id |-> <<"b1">>, source_type |-> "minio", source_bucket |-> bucket, source_key |-> key,
        output_prefix |-> <<"amdo_f1">>]
  ELSE [job_id |-> <<"b1">>, source_bucket |-> bucket, source_key |-> key,
        raw_audio_path |-> SourceBucket \o <<Slash>> \o MissingKey, output_prefix |-> <<"amdo_f1">>]

\* the producer builds the message for an object
schedule_split_job(shape, bucket, key) ==
  /\ client.pc = "scheduling"
  /\ client' = [pc |-> "enqueued", bucket |-> bucket, key |-> key, shape |-> shape,
                message |-> SplitJobOf(shape, bucket, key)]
  /\ PipelineUnchanged

\* process_split works out source_bucket and source_key of the message
process_split_source ==
  /\ client.pc = "enqueued"
  /\ client' = [pc |-> "decoded", bucket |-> client.bucket, key |-> client.key, shape |-> client.shape,
                message |-> client.message, source |-> SplitSource(client.message)]
  /\ PipelineUnchanged

InitDecode ==
  /\ InitWith(QSplit, SplitMessage(<<"amdo_f1">>, SourceBucket \o <<Slash>> \o SourceKey, <<"amdo_f1">>),
              0, EmptyStore, {})
  /\ vad = IdleVad
  /\ client = [pc |-> "scheduling"]

NextDecode ==
  \/ \E shape \in {"legacy", "new", "both"}, bucket \in BucketNames, key \in ObjectKeys :
       schedule_split_job(shape, bucket, key)
  \/ process_split_source

SpecDecode == InitDecode /\ [][NextDecode]_vars

\* --------------------------------------------------------------- scheduler
\* runs of schedule_split_jobs_from_bucket
MaxRuns == 2

\* segments_bucket: str = 'segments'
SegmentsBucket == <<"segments">>

\* list_audio_files_from_bucket: job_id = f"{collection}_{job_id}", the
\* collection being key.split('/')[0] ('root' for a key without "/") and the
\* rest the basename of the key without its extension
ScheduledJobId(key) ==
  LET collection == IF FirstSlash(key) = 0 THEN <<"root">> ELSE SubSeq(key, 1, FirstSlash(key) - 1)
      filename == SubSeq(key, LastSlash(key) + 1, Len(key))
      stem == IF Len(filename) > 1 /\ filename[Len(filename)] \in {".wav", ".mp3"}
              THEN SubSeq(filename, 1, Len(filename) - 1) ELSE filename
  IN collection \o <<"_">> \o stem

\* "existing = list_objects(segments_bucket, prefix=f"{job_id}_")", a listing
\* of the intermediate store
SegmentsExist(job_id) == KeysWithPrefix(minio, SegmentsBucket, job_id \o <<"_">>) # {}

\* a run of schedule_split_jobs_from_bucket begins: the files are listed
list_audio_files_from_bucket ==
  /\ client.pc = "idle" /\ client.runs < MaxRuns
  /\ \E files \in Orders(AudioFiles(SourceBucket)) :
       client' = [client EXCEPT !.pc = "scanning", !.runs = @ + 1, !.files = files,
                                !.total = 0, !.enqueued = 0, !.skipped = 0]
  /\ PipelineUnchanged

\* one iteration of "for file_info in list_audio_files_from_bucket(...)", and
\* the end of the run after the last file
schedule_split_jobs_from_bucket ==
  /\ client.pc = "scanning"
  /\ IF client.files = <<>>
     THEN /\ client' = [client EXCEPT !.pc = "idle"]
          /\ UNCHANGED <<queue, nextId>>
     ELSE LET source_key == Head(client.files)
              job_id == ScheduledJobId(source_key)
          IN IF client.skip_existing /\ SegmentsExist(job_id)
             THEN /\ client' = [client EXCEPT !.files = Tail(@), !.total = @ + 1, !.skipped = @ + 1]
                  /\ UNCHANGED <<queue, nextId>>
             ELSE /\ SendMessage(QSplit, SplitMessage(job_id, SourceBucket \o <<Slash>> \o source_key, job_id))
                  /\ client' = [client EXCEPT !.files = Tail(@), !.total = @ + 1, !.enqueued = @ + 1]
  /\ UNCHANGED <<acked, stores, pc, batch, status, localFile, splitLocals, audio, loops, faults>>

\* the source bucket holds one audio file; the segments bucket of the
\* intermediate store is empty or holds segments named {job_id}_...; the
\* split workers are running
InitSchedule ==
  \E skip_existing \in BOOLEAN, n \in 0..MaxSegs,
     old \in {InitialMinio,
              Put(InitialMinio, SegmentsBucket, ScheduledJobId(SourceKey) \o <<"_", "001", ".wav">>, Audio("wav"))} :
    /\ InitEmpty(old, n, SplitWorkers)
    /\ client = [pc |-> "idle", skip_existing |-> skip_existing, runs |-> 0, files |-> <<>>,
                 total |-> 0, enqueued |-> 0, skipped |-> 0]

\* the scheduler and the split stage
NextSchedule ==
  \/ list_audio_files_from_bucket
  \/ schedule_split_jobs_from_bucket
  \/ \E w \in SplitWorkers : receive_messages(w)
  \/ \E w \in SplitWorkers : LoopMsg(w)
  \/ \E w \in SplitWorkers : change_message_visibility(w)
  \/ \E w \in SplitWorkers : process_split_check(w)
  \/ \E w \in SplitWorkers : process_split_fetch(w)
  \/ \E w \in SplitWorkers : process_split_convert(w)
  \/ \E w \in SplitWorkers : process_split_vad(w)
  \/ \E w \in SplitWorkers, i \in 1..MaxSegs : upload_segment(w, i)
  \/ \E w \in SplitWorkers : process_split_joined(w)
  \/ \E w \in SplitWorkers : process_split_manifest(w)
  \/ \E w \in SplitWorkers : delete_message(w)

SpecSchedule == InitSchedule /\ [][NextSchedule]_vars

\* the queue of one stage holds a message that is not JSON and that stage's
\* workers are running
InitPoison ==
  \E fleet \in {DownloadWorkers, SplitWorkers, UploadWorkers} :
    /\ InitWith(QueueOf(CHOOSE w \in fleet : TRUE), NotJson, 0, EmptyStore, fleet)
    /\ vad = IdleVad /\ client = IdleClient

Init == InitDownload \/ InitSplit \/ InitUpload \/ InitPoison

Timeouts == \E q \in Queues, id \in 1..(MaxFaults + 2) : VisibilityTimeout(q, id)

Next ==
  \/ \E w \in Workers : receive_messages(w)
  \/ \E w \in Workers : receive_raises(w)
  \/ \E w \in Workers : receive_empty(w)
  \/ \E w \in Workers : time_sleep(w)
  \/ \E w \in Workers : KeyboardInterrupt(w)
  \/ \E w \in Workers : LoopMsg(w)
  \/ \E w \in SplitWorkers \cup UploadWorkers : change_message_visibility(w)
  \/ \E w \in DownloadWorkers : process_download_exists(w)
  \/ \E w \in DownloadWorkers : process_download_fetch(w)
  \/ \E w \in DownloadWorkers : convert_to_wav_16k(w)
  \/ \E w \in DownloadWorkers : process_download_verify(w)
  \/ \E w \in DownloadWorkers : process_download_store(w)
  \/ \E w \in DownloadWorkers : process_download_enqueue(w)
  \/ \E w \in SplitWorkers : process_split_check(w)
  \/ \E w \in SplitWorkers : process_split_fetch(w)
  \/ \E w \in SplitWorkers : process_split_convert(w)
  \/ \E w \in SplitWorkers : process_split_vad(w)
  \/ \E w \in SplitWorkers, i \in 1..MaxSegs : upload_segment(w, i)
  \/ \E w \in SplitWorkers, i \in 1..MaxSegs : upload_segment_raises(w, i)
  \/ \E w \in SplitWorkers : process_split_joined(w)
  \/ \E w \in SplitWorkers : process_split_manifest(w)
  \/ \E w \in UploadWorkers : process_upload_check(w)
  \/ \E w \in UploadWorkers : download_from_minio(w)
  \/ \E w \in UploadWorkers : upload_to_s3(w)
  \/ \E w \in Workers : delete_message(w)
  \/ \E w \in Workers : Crash(w)
  \/ Timeouts

Spec == Init /\ [][Next]_vars

\* the download stage on its own, its processes and the queue's timer running
NextDownload ==
  \/ \E w \in DownloadWorkers : receive_messages(w)
  \/ \E w \in DownloadWorkers : receive_raises(w)
  \/ \E w \in DownloadWorkers : receive_empty(w)
  \/ \E w \in DownloadWorkers : time_sleep(w)
  \/ \E w \in DownloadWorkers : LoopMsg(w)
  \/ \E w \in DownloadWorkers : process_download_exists(w)
  \/ \E w \in DownloadWorkers : process_download_fetch(w)
  \/ \E w \in DownloadWorkers : convert_to_wav_16k(w)
  \/ \E w \in DownloadWorkers : process_download_verify(w)
  \/ \E w \in DownloadWorkers : process_download_store(w)
  \/ \E w \in DownloadWorkers : process_download_enqueue(w)
  \/ \E w \in DownloadWorkers : delete_message(w)
  \/ \E w \in DownloadWorkers : Crash(w)
  \/ \E id \in 1..(MaxFaults + 2) : VisibilityTimeout(QDownload, id)

\* a worker process that can take a step takes one, and a visibility timeout
\* that runs elapses
LiveSpec == InitDownload /\ [][NextDownload]_vars /\ WF_vars(NextDownload)

\* ------------------------------------------------------------------ claims
\* the step is one of worker w inside its current for-iteration (not a crash)
StepOf(w) == pc'[w] # pc[w] /\ Len(batch'[w]) = Len(batch[w])

ManifestAt(job) == s3[<<OutputBucket(job), MetadataKey(job)>>]
HasManifest(job) == Exists(s3, OutputBucket(job), MetadataKey(job))
UnderPrefix(job) == KeysWithPrefix(s3, OutputBucket(job), OutputPrefix(job) \o <<Slash>>)

\* C1: in the three worker loops a message leaves the queue only in the
\* delete_message call that follows a stage function that returned, and the
\* step that reports FAILED deletes nothing and moves on to the next message
\* or back to polling.
C1_DeleteOnlyAfterReturn ==
  [][/\ \A q \in Queues : \A id \in Ids(q) :
          id \notin Ids(q)' =>
            \E w \in Workers : /\ QueueOf(w) = q
                               /\ pc[w] = "delete"
                               /\ Msg(w).id = id
                               /\ status'[w] = "SUCCESS"
     /\ \A w \in Workers :
          (status[w] # "FAILED" /\ status'[w] = "FAILED") =>
            /\ \A q \in Queues : Ids(q)' = Ids(q)
            /\ batch'[w] = Tail(batch[w])
            /\ pc'[w] = IF batch'[w] = <<>> THEN "poll" ELSE "loop"]_vars

C1_Witness ==
  /\ acked # {}
  /\ \E w, v \in Workers : status[w] = "SUCCESS" /\ status[v] = "FAILED"

\* C2: whenever {output_prefix}/metadata.json exists, every segment filename
\* it lists exists as an object under the same prefix.
C2_ManifestSegmentsExist ==
  \A j \in SplitJobs :
    HasManifest(j) =>
      \A k \in 1..Len(ManifestAt(j).segments) :
        Exists(s3, OutputBucket(j), OutputPrefix(j) \o <<Slash>> \o ManifestAt(j).segments[k])

C2_Witness ==
  /\ faults > 0
  /\ \E j \in SplitJobs : HasManifest(j) /\ Len(ManifestAt(j).segments) >= 2

\* C3: once a segment upload of an attempt has raised, the attempt never
\* reaches the manifest or the acknowledgment: its steps leave metadata.json as
\* it was and it ends FAILED (or crashes, or is shut down) with the message
\* still in the queue.
C3_NoManifestAfterFailedUpload ==
  [][\A w \in SplitWorkers :
       (pc[w] = "s_upload" /\ raised[w] /\ (pc'[w] # pc[w] \/ pending'[w] # pending[w])) =>
         \A j \in {Job(w)} :
           /\ pc'[w] \in {"s_upload", "loop", "poll", "exited"}
           /\ HasManifest(j)' = HasManifest(j)
           /\ HasManifest(j) => ManifestAt(j)' = ManifestAt(j)
           /\ Ids(QSplit)' = Ids(QSplit)
           /\ pc'[w] # "s_upload" => s3' = s3 /\ status'[w] # "SUCCESS"]_vars

C3_Witness ==
  \E w \in SplitWorkers :
    /\ pc[w] = "s_upload" /\ raised[w] /\ pending[w] = {}
    /\ UnderPrefix(Job(w)) # {}
    /\ ~HasManifest(Job(w))

\* C4: every acknowledged SplitJob has a Manifest at {output_prefix}/metadata.json.
C4_AckedSplitHasManifest ==
  \A a \in acked : a.q = QSplit => HasManifest(a.body)

\* C5: the source is already processed as the claim defines it
AlreadyProcessed(w) ==
  IF w \in SplitWorkers THEN UnderPrefix(Job(w)) # {}
  ELSE Exists(s3, AWS_S3_BUCKET, <<"raw-audio", Slash>> \o Job(w).source_key)

C6_NoDuplicateArtifacts ==
  /\ \A j \in SplitJobs :
       /\ UnderPrefix(j) \subseteq {SegmentKey(j, i) : i \in 1..nsegs} \cup {MetadataKey(j)}
       /\ HasManifest(j) =>
            /\ \A a, b \in 1..Len(ManifestAt(j).segments) :
                 ManifestAt(j).segments[a] = ManifestAt(j).segments[b] => a = b
            /\ ManifestAt(j).total_segments = Len(ManifestAt(j).segments)
  /\ \E out \in InitialS3 :
       KeysWithPrefix(s3, AWS_S3_BUCKET, <<"raw-audio", Slash>>) \ {x[2] : x \in DOMAIN out}
         \subseteq {UploadKey(j) : j \in UploadJobs}

C6_Witness ==
  \E w \in SplitWorkers :
    /\ pc[w] = "s_upload" /\ pending[w] = {} /\ ~raised[w]
    /\ Len(uploaded[w]) = 2
    /\ HasManifest(Job(w))

\* the stage function can succeed on the job
Succeedable(job) == job.source_type \in {"youtube", "gdrive", "url", "s3"} /\ SourceAvailable(job)

\* C7: every enqueued DownloadJob whose stage function can succeed is
\* eventually acknowledged, whatever failed or crashed on the way.
C7_EventuallyAcked ==
  \A j \in DownloadJobs :
    ((\E m \in queue[QDownload] : m.body = j) /\ Succeedable(j))
      ~> (\E a \in acked : a.q = QDownload /\ a.body = j)

C7_Witness ==
  /\ faults > 0
  /\ \E a \in acked : a.q = QDownload
  /\ \E w \in DownloadWorkers : status[w] = "FAILED"

\* the SplitJobs that were enqueued for job_id, still queued or acknowledged
SplitJobsFor(job_id) ==
  {m.body : m \in {x \in queue[QSplit] : x.body.job_id = job_id}}
    \cup {a.body : a \in {x \in acked : x.q = QSplit /\ x.body.job_id = job_id}}

\* C8: after process_download returned, the object is in the intermediate
\* store and a SplitJob of the job resolves, in process_split, to the bucket
\* and key the object was stored at.
C8_SplitJobReferencesObject ==
  \A w \in DownloadWorkers :
    pc[w] = "delete" =>
      /\ Exists(minio, DownloadTarget(Job(w)).bucket, DownloadTarget(Job(w)).key)
      /\ \E sj \in SplitJobsFor(Job(w).job_id) : SplitSource(sj) = DownloadTarget(Job(w))

\* C9: when the object exists at output_path, process_download goes straight
\* to enqueue_split without a fetch or a store write, and enqueue_split adds
\* one SplitJob before the function returns.
C9_ExistingObjectSkipsFetch ==
  [][\A w \in DownloadWorkers :
       /\ (pc[w] = "d_exists" /\ StepOf(w)
             /\ Exists(minio, DownloadTarget(Job(w)).bucket, DownloadTarget(Job(w)).key)) =>
            pc'[w] = "d_enqueue" /\ minio' = minio /\ s3' = s3
       /\ (pc[w] = "d_enqueue" /\ StepOf(w)) =>
            /\ minio' = minio
            /\ Cardinality(queue'[QSplit]) = Cardinality(queue[QSplit]) + 1
            /\ pc'[w] = "delete"]_vars

\* C10: an acknowledged DownloadJob has its object stored and a SplitJob
\* enqueued for it.
C10_AckedDownloadIsStoredAndEnqueued ==
  \A a \in acked :
    a.q = QDownload =>
      /\ Exists(minio, DownloadTarget(a.body).bucket, DownloadTarget(a.body).key)
      /\ SplitJobsFor(a.body.job_id) # {}

C10_Witness ==
  /\ faults > 0
  /\ \E a \in acked :
       a.q = QDownload /\ Cardinality(queue[QSplit]) = 1 /\ \A w \in DownloadWorkers : pc[w] = "poll"

\* the call of chop_to_max_duration has returned
ChopReturned == vad.pc \in {"chopped", "returned"}

\* the concatenation of the chops of the single intervals
RECURSIVE ChopEach(_, _)
ChopEach(segments, max_duration) ==
  IF segments = <<>> THEN <<>>
  ELSE chop_to_max_duration(<<Head(segments)>>, max_duration).segs
       \o ChopEach(Tail(segments), max_duration)

\* the sum of the lengths of subs
RECURSIVE TotalLength(_)
TotalLength(subs) ==
  IF subs = <<>> THEN 0 ELSE Head(subs).end - Head(subs).start + TotalLength(Tail(subs))

\* subs cover seg exactly, piece after piece, each piece within max
CoversExactly(seg, subs, max) ==
  /\ Len(subs) >= 1
  /\ subs[1].start = seg.start
  /\ subs[Len(subs)].end = seg.end
  /\ \A i \in 1..(Len(subs) - 1) : subs[i].end = subs[i + 1].start
  /\ \A i \in 1..Len(subs) :
       subs[i].start <= subs[i].end /\ FloatSub(subs[i].end, subs[i].start) <= max
  /\ TotalLength(subs) = seg.end - seg.start

\* C11: when chop_to_max_duration returns, the list is the concatenation of
\* the chops of its intervals, and the chop of an interval is a run of
\* sub-intervals, each of length <= max, that starts at the interval's start,
\* ends at its end and has each piece start where the one before it ends.
C11_ChopCoversExactly ==
  ChopReturned =>
    /\ vad.final_segments = ChopEach(vad.speech_timestamps, vad.max_duration)
    /\ \A i \in 1..Len(vad.speech_timestamps) :
         CoversExactly(vad.speech_timestamps[i],
                       chop_to_max_duration(<<vad.speech_timestamps[i]>>, vad.max_duration).segs,
                       vad.max_duration)

C11_Witness ==
  /\ vad.pc = "chopped"
  /\ Len(vad.speech_timestamps) = 2
  /\ vad.speech_timestamps[1].start = vad.speech_timestamps[1].end
  /\ Len(vad.final_segments) >= 5

\* the ceiling of L / max
CeilDiv(L, max) == (L + max - 1) \div max

\* the least k with L / 2^k <= max
RECURSIVE HalvingsNeeded(_, _)
HalvingsNeeded(L, max) == IF L <= max THEN 0 ELSE 1 + HalvingsNeeded(L, 2 * max)

\* every midpoint the recursion on seg computes is exact
RECURSIVE ExactMidpoints(_, _)
ExactMidpoints(seg, max) ==
  \/ seg.end - seg.start <= max
  \/ /\ Round(seg.end - seg.start) = seg.end - seg.start
     /\ Round(seg.start + seg.end) = seg.start + seg.end
     /\ (seg.start + seg.end) % 2 = 0
     /\ ExactMidpoints([start |-> seg.start, end |-> (seg.start + seg.end) \div 2], max)
     /\ ExactMidpoints([start |-> (seg.start + seg.end) \div 2, end |-> seg.end], max)

\* the single interval of the call, longer than max
LongInterval ==
  /\ ChopReturned
  /\ Len(vad.speech_timestamps) = 1
  /\ FloatSub(vad.speech_timestamps[1].end, vad.speech_timestamps[1].start) > vad.max_duration

\* C12 as stated: for an interval of length L > max, chop returns
\* ceiling(L / max) sub-intervals.
C12_CountIsCeiling ==
  LongInterval =>
    Len(vad.final_segments) =
      CeilDiv(vad.speech_timestamps[1].end - vad.speech_timestamps[1].start, vad.max_duration)

\* C12 as amended: for an interval of length L > max whose midpoints are all
\* computed exactly, chop returns 2^k sub-intervals, k the least number of
\* halvings with L / 2^k <= max.
C12_CountIsPowerOfTwo ==
  (LongInterval /\ ExactMidpoints(vad.speech_timestamps[1], vad.max_duration)) =>
    Len(vad.final_segments) =
      Pow2(HalvingsNeeded(vad.speech_timestamps[1].end - vad.speech_timestamps[1].start,
                          vad.max_duration))

C12_Witness ==
  /\ LongInterval
  /\ ExactMidpoints(vad.speech_timestamps[1], vad.max_duration)
  /\ Len(vad.final_segments) = 4
  /\ CeilDiv(vad.speech_timestamps[1].end - vad.speech_timestamps[1].start, vad.max_duration) = 3

\* the call of the regression fixture: one interval [0, 75], max_duration 30
Fixture ==
  /\ vad.speech_timestamps = <<[start |-> 0, end |-> Sec(75)]>>
  /\ vad.max_duration = MAX_DURATION_SEC

\* C13: the interval [0, 75] with max_duration 30 gives the four segments
\* [0, 18.75], [18.75, 37.5], [37.5, 56.25], [56.25, 75], in this order, each
\* of duration 18.75.
C13_FixtureGivesFourSegments ==
  (Fixture /\ vad.pc = "returned") =>
    vad.result = [i \in 1..4 |-> [start |-> (i - 1) * (Sec(75) \div 4),
                                  end |-> i * (Sec(75) \div 4),
                                  duration |-> Sec(75) \div 4]]

C13_Witness == Fixture /\ vad.pc = "returned" /\ Len(vad.result) = 4

\* C14: the list split_audio_with_vad returns is strictly increasing in
\* start, no segment starts before the one before it ends, and every duration
\* is at least MIN_DURATION_SEC and at most max_duration.
C14_SegmentsOrderedAndBounded ==
  vad.pc = "returned" =>
    /\ \A i \in 1..(Len(vad.result) - 1) :
         /\ vad.result[i].start < vad.result[i + 1].start
         /\ vad.result[i].end <= vad.result[i + 1].start
    /\ \A i \in 1..Len(vad.result) :
         /\ vad.result[i].duration = FloatSub(vad.result[i].end, vad.result[i].start)
         /\ vad.result[i].duration >= MIN_DURATION_SEC
         /\ vad.result[i].duration <= vad.max_duration

C14_Witness ==
  /\ vad.pc = "returned"
  /\ Len(vad.speech_timestamps) = 2
  /\ Len(vad.result) >= 2
  /\ Len(vad.result) < Len(vad.final_segments)

\* C15: chop_to_max_duration returns for every list of intervals and every
\* max > 0, and gives a zero-length interval back as it is.
C15_ChopTerminates ==
  /\ vad.pc # "raised"
  /\ \A seg \in Intervals, max \in MaxDurations :
       seg.start = seg.end => chop_to_max_duration(<<seg>>, max) = Returns(<<seg>>)

\* the Manifest of job records that no speech was found
NoSpeechRecorded(job) ==
  /\ HasManifest(job)
  /\ ManifestAt(job).total_segments = 0
  /\ ManifestAt(job).status = "no_speech"

\* the step of process_split that finds no segment writes the Manifest with
\* total_segments = 0 and a status marker, writes nothing else, and returns
NoSpeechStep(w) ==
  (pc[w] = "s_vad" /\ nsegs = 0 /\ StepOf(w)) =>
    \A j \in {Job(w)} :
      /\ pc'[w] = "delete"
      /\ NoSpeechRecorded(j)'
      /\ DOMAIN s3' = DOMAIN s3 \cup {<<OutputBucket(j), MetadataKey(j)>>}
      /\ \A x \in DOMAIN s3 \ {<<OutputBucket(j), MetadataKey(j)>>} : s3'[x] = s3[x]

SplitReturned(w) == pc[w] = "delete" /\ uploaded[w] # <<>>

\* segment_00i.wav, written out
PaddedName(i) == <<"segment_", "0", "0", Digit(i), ".wav">>

\* C17: after process_split returned with n >= 1 segments, the objects under
\* {output_prefix}/ are segment_001.wav .. segment_n.wav, the i-th segment at
\* index i, and metadata.json; the Manifest has total_segments = n and one
\* entry for each segment file.
C17_SegmentsAndManifestStored ==
  \A w \in SplitWorkers :
    SplitReturned(w) =>
      LET j == Job(w)
          key(i) == OutputPrefix(j) \o <<Slash>> \o PaddedName(i)
      IN /\ nsegs >= 1
         /\ UnderPrefix(j) = {key(i) : i \in 1..nsegs} \cup {OutputPrefix(j) \o <<Slash, "metadata.json">>}
         /\ \A i \in 1..nsegs : s3[<<OutputBucket(j), key(i)>>] = [kind |-> "segment", index |-> i]
         /\ ManifestAt(j).total_segments = nsegs
         /\ Len(ManifestAt(j).segments) = nsegs
         /\ {ManifestAt(j).segments[k] : k \in 1..nsegs} = {PaddedName(i) : i \in 1..nsegs}

C17_Witness ==
  /\ nsegs = 2
  /\ faults = 0
  /\ \E w \in SplitWorkers : SplitReturned(w) /\ Len(uploaded[w]) = 2

\* C18: the segments list of a Manifest is in ascending order of the
\* filename index, whatever order the uploads completed in.
C18_ManifestInStartOrder ==
  \A j \in SplitJobs :
    HasManifest(j) =>
      \A k \in 1..Len(ManifestAt(j).segments) : ManifestAt(j).segments[k] = SegmentName(k)

\* the destination of an UploadJob, and its source
Destination(job) == <<AWS_S3_BUCKET, <<"raw-audio", Slash>> \o job.source_key>>
Source(job) == <<job.source_bucket, job.source_key>>

\* C19: process_upload writes one key, raw-audio/{source_key}, with the
\* content of the source object, and returns; its steps before the put write
\* nothing.
C19_UploadCopiesVerbatim ==
  [][\A w \in UploadWorkers :
       /\ (pc[w] = "u_put" /\ StepOf(w)) =>
            \A j \in {Job(w)} :
              /\ pc'[w] = "delete"
              /\ DOMAIN s3' = DOMAIN s3 \cup {Destination(j)}
              /\ s3'[Destination(j)] = minio[Source(j)]
              /\ \A x \in DOMAIN s3 \ {Destination(j)} : s3'[x] = s3[x]
              /\ minio' = minio
       /\ (pc[w] \in {"u_check", "u_get"} /\ StepOf(w)) => s3' = s3 /\ minio' = minio]_vars

C19_Witness ==
  \E w \in UploadWorkers :
    /\ pc[w] = "delete" /\ localFile[w] # NoFile
    /\ Destination(Job(w)) \in DOMAIN s3
    /\ s3[Destination(Job(w))] = minio[Source(Job(w))]
    /\ Cardinality(DOMAIN s3) = 2

\* the positions of a worker inside its while loop
Running(w) == pc[w] \notin {"stopped", "exited"}

\* the step is an error of worker w: a stage failure, or an error caught by
\* the outer handler (receive raised, the body did not decode)
ErrorStep(w) ==
  \/ status[w] # "FAILED" /\ status'[w] = "FAILED"
  \/ pc[w] = "poll" /\ pc'[w] = "poll" /\ faults' # faults
  \/ pc[w] = "loop" /\ ~Decodes(Msg(w).body) /\ pc'[w] # "exited"

\* C20: a worker loop is left only through the KeyboardInterrupt handler
\* (which prints the shutdown line); after a queue, store, decoding or stage
\* error the worker is still in its loop, polling or at the next message.
C20_LoopExitsOnlyOnShutdown ==
  [][\A w \in Workers :
       /\ (Running(w) /\ ~Running(w)') => (pc'[w] = "exited" /\ status'[w] = "SHUTDOWN")
       /\ (Running(w) /\ ErrorStep(w)) => pc'[w] \in {"poll", "loop"}]_vars

C20_Witness ==
  /\ faults = MaxFaults
  /\ \E w, v \in Workers :
       /\ pc[w] = "exited" /\ status[w] = "SHUTDOWN"
       /\ pc[v] = "poll" /\ status[v] = "FAILED"

\* a DownloadJob no attempt of process_download succeeds on: its source_type
\* has no downloader and its output object is not in the store
Doomed(job) ==
  /\ job.source_type \notin {"youtube", "gdrive", "url", "s3"}
  /\ ~Exists(minio, DownloadTarget(job).bucket, DownloadTarget(job).key)

\* message id is in the download queue and its job is doomed
DoomedQueued(id) == \E m \in queue[QDownload] : m.id = id /\ Doomed(m.body)

\* message id is being handled by a worker that received it
Delivered(id) == \E w \in DownloadWorkers : pc[w] = "d_exists" /\ Msg(w).id = id /\ ~Msg(w).stale

NormalizationFails(w) ==
  pc[w] = "d_convert" /\ localFile[w] = Fetched /\ pc'[w] = "d_verify" /\ localFile'[w] # Converted

\* the attempt of worker w goes on with the file that was fetched
KeepsOriginal(w) == pc[w] \in {"d_verify", "d_store"} /\ localFile[w] = Fetched

\* C22: for every source kind, when the fetch succeeds and normalization
\* fails, process_download keeps the fetched file, passes the verification,
\* stores the unconverted file at output_path and goes on to enqueue the
\* SplitJob.
C22_ConversionFailureStoresOriginal ==
  [][\A w \in DownloadWorkers :
       /\ NormalizationFails(w) => localFile'[w] = Fetched
       /\ (KeepsOriginal(w) /\ pc'[w] \notin {pc[w], "poll", "exited"} /\ faults' = faults) =>
            \A j \in {Job(w)} :
              /\ pc[w] = "d_verify" => pc'[w] = "d_store"
              /\ pc[w] = "d_store" =>
                   /\ pc'[w] = "d_enqueue"
                   /\ minio'[<<DownloadTarget(j).bucket, DownloadTarget(j).key>>] = Fetched]_vars

\* the source object of the job worker w is working on is where the job says
SplitSourceExists(w) ==
  Exists(IF Get(Job(w), "source_type", "minio") = "s3" THEN s3 ELSE minio,
         SplitSource(Job(w)).bucket, SplitSource(Job(w)).key)

\* the step of worker w in which the download of the source or convert_to_wav
\* fails (or the process dies in it)
FetchOrConvertFails(w) ==
  /\ pc'[w] # pc[w]
  /\ \/ pc[w] = "s_fetch" /\ (~SplitSourceExists(w) \/ faults' # faults)
     \/ pc[w] = "s_convert" /\ faults' # faults

\* C23: when fetching the source or converting it to WAV fails in
\* process_split, the attempt ends there: it has written and writes no segment
\* and no manifest, it does not reach the segmentation, and the message is
\* neither acknowledged nor removed.
C23_SplitFetchFailureWritesNothing ==
  [][\A w \in SplitWorkers :
       /\ FetchOrConvertFails(w) =>
            /\ pc'[w] \in {"loop", "poll", "exited"}
            /\ status'[w] # "SUCCESS"
            /\ s3' = s3
            /\ acked' = acked
            /\ Ids(QSplit)' = Ids(QSplit)
       /\ (pc[w] \in {"extend", "s_check", "s_fetch", "s_convert"} /\ pc'[w] # pc[w]) => s3' = s3]_vars

C23_Witness ==
  /\ faults = 0
  /\ \E w \in SplitWorkers, m \in queue[QSplit] :
       /\ status[w] = "FAILED" /\ pc[w] = "poll"
       /\ ~m.visible
       /\ ~Exists(minio, SplitSource(m.body).bucket, SplitSource(m.body).key)
       /\ UnderPrefix(m.body) = {}
       /\ acked = {}

\* the step is a call of get_or_create_queue(n)
CallOf(n) == client.pc = "resolving" /\ client'.calls = client.calls + 1 /\ client'.last.name = n

\* C24: in one process, for each queue name, get_or_create_queue creates the
\* queue at most once and only in a call whose lookup found it missing; once
\* the name is resolved every later call returns the cached URL, makes no
\* request to the queue service and leaves the cache alone; and a call that
\* raises leaves the cache unchanged.
C24_QueueResolvedOnce ==
  [][\A n \in Queues :
       CallOf(n) =>
         /\ client'.creates[n] <= 1
         /\ client'.creates[n] > client.creates[n] =>
              n \notin client.service /\ n \notin DOMAIN client.queue_urls
         /\ n \in DOMAIN client.queue_urls =>
              /\ client'.last.outcome = "returned"
              /\ client'.last.url = client.queue_urls[n]
              /\ client'.contacts = client.contacts
              /\ client'.queue_urls = client.queue_urls
         /\ client'.last.outcome = "raised" => client'.queue_urls = client.queue_urls
         /\ client'.last.outcome = "returned" =>
              n \in DOMAIN client'.queue_urls /\ client'.queue_urls[n] = client'.last.url]_vars

C24_Witness ==
  /\ client.pc = "resolving"
  /\ client.calls = 3
  /\ client.contacts = 3
  /\ client.creates[QSplit] = 1
  /\ client.creates[QDownload] = 0 /\ QDownload \in DOMAIN client.queue_urls
  /\ client.last = [name |-> QSplit, outcome |-> "returned", url |-> QueueUrl(QSplit)]

\* C25: within one run of enqueue_jobs the job_ids of the messages the queue
\* accepted are pairwise distinct, whichever entries or whole calls failed.
C25_AcceptedJobIdsDistinct ==
  client.pc \in {"enqueuing", "enqueued"} =>
    \A a, b \in 1..Len(client.accepted) :
      client.accepted[a] = client.accepted[b] => a = b

\* how often id occurs in the list ids
Occurrences(id, ids) == Cardinality({k \in 1..Len(ids) : ids[k] = id})

\* the identifier of messages[k]: its Id, or its position when it has none
Identifier(messages, k) == Get(messages[k], "Id", Str(k - 1))

\* C27: send_batch puts at most 10 entries in its request, and when it is
\* given at most 10 messages with distinct identifiers and returns, each
\* identifier is in exactly one of the lists 'successful' and 'failed', once,
\* and the lists hold nothing else.
C27_SendBatchPartitions ==
  (client.pc = "sending" /\ client.last.op = "send_batch") =>
    LET call == client.last
        n == Len(call.messages)
    IN /\ Len(call.entries) <= 10
       /\ (/\ call.outcome = "returned"
           /\ n <= 10
           /\ \A a, b \in 1..n : Identifier(call.messages, a) = Identifier(call.messages, b) => a = b) =>
            /\ \A k \in 1..n :
                 Occurrences(Identifier(call.messages, k), call.successful \o call.failed) = 1
            /\ Len(call.successful) + Len(call.failed) = n

C27_Witness ==
  /\ client.pc = "sending" /\ client.last.op = "send_batch"
  /\ client.last.outcome = "returned"
  /\ Len(client.last.messages) = 10
  /\ Len(client.last.successful) = 9 /\ Len(client.last.failed) = 1
  /\ "Id" \in DOMAIN client.last.messages[1]

\* C28: when the queue URL ends in .fifo, every job message that
\* enqueue_download, enqueue_split or send_batch sends carries the job_id of
\* its body as MessageGroupId and as MessageDeduplicationId.
C28_FifoKeysAreJobId ==
  (client.pc = "sending" /\ is_fifo_queue(client.queue_url)) =>
    \A k \in 1..Len(client.last.entries) :
      /\ client.last.entries[k].MessageGroupId = client.last.entries[k].MessageBody.job_id
      /\ client.last.entries[k].MessageDeduplicationId = client.last.entries[k].MessageBody.job_id

\* the message of queue q with that id
InQueue(q, id) == CHOOSE m \in queue[q] : m.id = id

\* C26: a download worker receives at most 1 message per poll, under a
\* visibility timeout of 600 s, and never extends it; a split or upload worker
\* receives at most 5 messages per poll, under a visibility timeout of 900 s,
\* and enters the stage function for a message only by the step in which the
\* extension of that message to 1800 s succeeded: when the extension fails
\* the message is reported FAILED and the stage function is not run on it.
C26_PollAndExtend ==
  [][\A w \in Workers :
       /\ (pc[w] = "poll" /\ pc'[w] = "loop") =>
            /\ Len(batch'[w]) <= (IF w \in DownloadWorkers THEN 1 ELSE 5)
            /\ \A k \in 1..Len(batch'[w]) :
                 \E m \in queue'[QueueOf(w)] :
                   /\ m.id = batch'[w][k].id
                   /\ ~m.visible
                   /\ m.timeout = (IF w \in DownloadWorkers THEN 600 ELSE 900)
       /\ (w \notin DownloadWorkers /\ pc'[w] \in {"s_check", "u_check"} /\ pc[w] # pc'[w]) =>
            /\ pc[w] = "extend"
            /\ faults' = faults
            /\ \A id \in {Msg(w).id} : InQueue(QueueOf(w), id)'.timeout = 1800
       /\ (pc[w] = "extend" /\ faults' # faults) =>
            pc'[w] \in {"loop", "poll"} /\ status'[w] = "FAILED"
       /\ w \in DownloadWorkers =>
            \A m \in queue'[QDownload] : m.timeout \in {0, 600}]_vars

C26_Witness ==
  \E w \in SplitWorkers \cup UploadWorkers :
    /\ Len(batch[w]) = 5
    /\ pc[w] \in {"s_check", "u_check"}
    /\ \E m \in queue[QueueOf(w)] : m.visible
    /\ InQueue(QueueOf(w), Msg(w).id).timeout = 1800
    /\ \E m \in queue[QueueOf(w)] : m.timeout = 900

\* the step of worker w in which the fetch of its DownloadJob fails: the
\* source_type has no downloader, the downloader raises (or the process dies
\* in it), or the file it left is missing or has 0 bytes
FetchFails(w) ==
  /\ pc'[w] # pc[w]
  /\ \/ /\ pc[w] = "d_fetch"
        /\ \/ Job(w).source_type \notin {"youtube", "gdrive", "url", "s3"}
           \/ ~SourceAvailable(Job(w))
           \/ pc'[w] \notin {"d_convert", "d_verify"}
     \/ pc[w] = "d_verify" /\ localFile[w] \in {NoFile, Empty}

\* C29: when the fetch of a DownloadJob fails, the attempt ends there: it has
\* written and writes nothing to the store, enqueues no SplitJob, and the
\* message is neither acknowledged nor removed; and a SplitJob is enqueued
\* only by a download worker at its enqueue_split call, with the object at
\* output_path in the store.
C29_FailedFetchWritesNothing ==
  [][/\ \A w \in DownloadWorkers :
          /\ FetchFails(w) =>
               /\ pc'[w] \in {"loop", "poll", "exited"}
               /\ status'[w] # "SUCCESS"
               /\ minio' = minio
               /\ queue'[QSplit] = queue[QSplit]
               /\ acked' = acked
               /\ Ids(QDownload)' = Ids(QDownload)
          /\ (pc[w] \in {"d_exists", "d_fetch", "d_convert", "d_verify"} /\ pc'[w] # pc[w]) =>
               minio' = minio /\ queue'[QSplit] = queue[QSplit]
     /\ Ids(QSplit)' \ Ids(QSplit) # {} =>
          \E w \in DownloadWorkers :
            /\ pc[w] = "d_enqueue"
            /\ Exists(minio, DownloadTarget(Job(w)).bucket, DownloadTarget(Job(w)).key)]_vars

C29_Witness ==
  /\ faults = 0
  /\ minio = InitialMinio
  /\ queue[QSplit] = {}
  /\ acked = {}
  /\ \E m \in queue[QDownload], w \in DownloadWorkers :
       /\ Decodes(m.body)
       /\ m.body.source_type = "ftp"
       /\ ~m.visible
       /\ status[w] = "FAILED" /\ pc[w] = "poll"

\* the destination key of the UploadJob of w is in the output bucket, and
\* some longer key that starts with it is
ExactKeyExists(w) == Exists(s3, AWS_S3_BUCKET, <<"raw-audio", Slash>> \o Job(w).source_key)
LongerKeyExists(w) ==
  \E k \in KeysWithPrefix(s3, AWS_S3_BUCKET, <<"raw-audio", Slash>> \o Job(w).source_key) :
    Len(k) > Len(<<"raw-audio", Slash>> \o Job(w).source_key)

\* the existence check of process_upload ends in the early return
Skips(w) == pc[w] = "u_check" /\ StepOf(w) /\ pc'[w] = "delete"

EmptyReceive(w) ==
  pc[w] = "poll" /\ loops'[w].consecutive_empty = loops[w].consecutive_empty + 1

\* the step is a receive that raises in some worker: nothing but the fault
\* count and the loops changes
ReceiveRaises ==
  /\ faults' # faults
  /\ UNCHANGED <<queue, nextId, acked, stores, pc, batch, status, localFile, splitLocals>>

\* the step is json.loads raising on the message worker w is at
DecodeRaises(w) ==
  pc[w] = "loop" /\ ~Decodes(Msg(w).body) /\ pc'[w] # pc[w] /\ faults' = faults

\* C31: an empty receive leaves the worker ready to poll at once, not
\* sleeping; an error of the receive or of the decoding of a message, caught
\* by the outer handler, puts the worker into a sleep of 5 seconds, during
\* which it receives nothing and after which it polls again; a failure inside
\* the per-message handler starts no sleep.
C31_SleepOnlyAfterOuterError ==
  [][/\ \A w \in Workers :
          /\ EmptyReceive(w) =>
               /\ loops[w].sleeping = 0 /\ loops'[w].sleeping = 0
               /\ pc'[w] = "poll" /\ batch'[w] = <<>>
          /\ DecodeRaises(w) =>
               /\ pc'[w] = "poll" /\ batch'[w] = <<>>
               /\ loops'[w].sleeping = 5
          /\ loops[w].sleeping > 0 =>
               /\ loops[w].sleeping = 5 /\ pc[w] = "poll"
               /\ batch'[w] = <<>>
               /\ pc'[w] \in {"poll", "exited"}
               /\ loops'[w].sleeping \in {0, 5}
               /\ loops'[w].consecutive_empty = loops[w].consecutive_empty \/ pc'[w] = "exited"
          /\ (status[w] # "FAILED" /\ status'[w] = "FAILED") => loops'[w].sleeping = 0
          /\ (loops[w].sleeping = 0 /\ loops'[w].sleeping > 0) => (ReceiveRaises \/ DecodeRaises(w))
     /\ ReceiveRaises =>
          \E w \in Workers :
            /\ pc[w] = "poll" /\ loops[w].sleeping = 0
            /\ loops' = [loops EXCEPT ![w].sleeping = 5]]_vars

C31_Witness ==
  /\ faults = 1
  /\ \E w, v \in Workers :
       /\ pc[w] = "poll" /\ loops[w].sleeping = 5
       /\ pc[v] = "poll" /\ loops[v].sleeping = 0 /\ loops[v].consecutive_empty = 1
       /\ \E m \in queue[QueueOf(w)] : Decodes(m.body) /\ ~m.visible

\* C32: process_split decodes the message a producer built for the object
\* (bucket, key) to exactly that bucket and key: a legacy message whose
\* raw_audio_path is bucket + "/" + key, wherever the key has a "/", and a
\* message with source_bucket, whose raw_audio_path is not looked at.
C32_SplitSourceDecodes ==
  client.pc = "decoded" =>
    /\ client.source = [bucket |-> client.bucket, key |-> client.key]
    /\ client.shape = "legacy" => client.message.raw_audio_path = client.bucket \o <<Slash>> \o client.key
    /\ client.shape = "both" => client.message.raw_audio_path # client.bucket \o <<Slash>> \o client.key

C32_Witness ==
  /\ client.pc = "decoded" /\ client.shape = "legacy"
  /\ client.bucket = <<"raw", "-audio">>
  /\ client.key = <<"amdo", Slash, Slash>>
  /\ client.source.key = <<"amdo", Slash, Slash>>

\* the Split stage has written a segment of the job: an object
\* {output_prefix}/segment_NNN.wav is in the job's output bucket
SegmentsWritten(job) ==
  KeysWithPrefix(s3, OutputBucket(job), OutputPrefix(job) \o <<Slash, "segment_">>) # {}

\* C33: a run of schedule_split_jobs_from_bucket with skip_existing enabled
\* enqueues no SplitJob for a file of which the Split stage has already
\* written segments.
C33_ProcessedFileNotEnqueued ==
  [][client.skip_existing =>
       \A m \in queue'[QSplit] : m.id \notin Ids(QSplit) => ~SegmentsWritten(m.body)]_vars

\* the step is the existence listing of worker w raising (and not the
\* process dying or being shut down at that point)
ListingRaises(w) ==
  /\ pc[w] \in {"s_check", "u_check"} /\ pc'[w] # pc[w]
  /\ faults' # faults
  /\ ~(batch'[w] = <<>> /\ status'[w] \in {status[w], "SHUTDOWN"})

\* C34: when the existence listing of process_split or process_upload raises,
\* the message does not fail: the stage goes on to the download of the source
\* as it does when it finds no output, nothing is written in that step, and
\* the writes of the processing that follows replace whatever is at their keys.
C34_ListingErrorProceeds ==
  [][\A w \in SplitWorkers \cup UploadWorkers : batch[w] # <<>> => \A j \in {Job(w)} :
       /\ ListingRaises(w) =>
            /\ pc'[w] = (IF w \in SplitWorkers THEN "s_fetch" ELSE "u_get")
            /\ status'[w] = status[w] /\ batch'[w] = batch[w]
            /\ s3' = s3 /\ minio' = minio /\ queue' = queue
       /\ (pc[w] = "s_manifest" /\ StepOf(w) /\ faults' = faults) =>
            s3'[<<OutputBucket(j), MetadataKey(j)>>] = Manifest(j, nsegs, uploaded[w])
       /\ (pc[w] = "s_upload" /\ pending'[w] # pending[w] /\ faults' = faults /\ pc'[w] = "s_upload") =>
            \A i \in pending[w] \ pending'[w] :
              s3'[<<OutputBucket(j), SegmentKey(j, i)>>] = [kind |-> "segment", index |-> i]
       /\ (pc[w] = "u_put" /\ StepOf(w) /\ faults' = faults) =>
            s3'[<<AWS_S3_BUCKET, UploadKey(j)>>] = localFile[w]]_vars

C34_Witness ==
  /\ faults = 2
  /\ \E w, v \in SplitWorkers :
       /\ pc[w] = "s_manifest" /\ HasManifest(Job(w)) /\ ~Msg(w).stale
       /\ ManifestAt(Job(w)).total_segments = nsegs /\ nsegs > 0
       /\ v # w /\ pc[v] = "poll" /\ status[v] = ""

\* the step is a failure of worker w while it handles the message it is at:
\* the stage function or the visibility extension raised, or the body did not
\* decode
HandlingFails(w) ==
  \/ pc[w] \notin {"poll", "loop"} /\ status[w] # "FAILED" /\ status'[w] = "FAILED"
  \/ DecodeRaises(w)

\* C35: a failure while a split or upload worker handles one message of a
\* received batch leaves the remaining messages of the batch with the worker,
\* which goes on to the next of them in the same loop iteration.
C35_FailureKeepsBatch ==
  [][\A w \in SplitWorkers \cup UploadWorkers :
       (batch[w] # <<>> /\ HandlingFails(w)) =>
         /\ batch'[w] = Tail(batch[w])
         /\ pc'[w] = (IF Len(batch[w]) > 1 THEN "loop" ELSE "poll")]_vars

\* worker w is handling the message at the head of its batch
Processing(w) == pc[w] \notin {"poll", "loop", "stopped", "exited"}

\* C36: when every stage invocation ends within its 1800 seconds, no message
\* is being handled by two workers at once, and a message a worker has
\* received and not yet acknowledged or failed on is invisible to the others.
C36_NoConcurrentProcessing ==
  /\ \A w, v \in SplitWorkers :
       (w # v /\ Processing(w) /\ Processing(v)) => Msg(w).id # Msg(v).id
  /\ \A w \in SplitWorkers : \A k \in 1..Len(batch[w]) :
       \A m \in queue[QSplit] : m.id = batch[w][k].id => ~m.visible

\* C37: the SplitJobs enqueue_jobs sends for two distinct source objects have
\* distinct output prefixes, and a SplitJob the existence check of
\* process_split has skipped finds under its prefix no manifest of another job.
C37_DistinctSourcesDistinctPrefixes ==
  /\ \A m1, m2 \in queue[QSplit] :
       m1.body.source_key # m2.body.source_key => OutputPrefix(m1.body) # OutputPrefix(m2.body)
  /\ \A w \in SplitWorkers :
       (pc[w] = "delete" /\ localFile[w] = NoFile /\ uploaded[w] = <<>> /\ HasManifest(Job(w))) =>
         ManifestAt(Job(w)).job_id = Job(w).job_id

\* the pieces chop_to_max_duration makes of the i-th interval of the call
Pieces(i) == chop_to_max_duration(<<vad.speech_timestamps[i]>>, vad.max_duration).segs

\* the i-th interval of the call is longer than max_duration: it is bisected
Bisected(i) ==
  FloatSub(vad.speech_timestamps[i].end, vad.speech_timestamps[i].start) > vad.max_duration

\* every piece is longer than max / 2, and the pieces are equally long
EqualAndOverHalf(subs, max) ==
  /\ \A k \in 1..Len(subs) : 2 * FloatSub(subs[k].end, subs[k].start) > max
  /\ \A k, l \in 1..Len(subs) :
       FloatSub(subs[k].end, subs[k].start) = FloatSub(subs[l].end, subs[l].start)

\* the filter loop kept the piece p
Kept(p) == \E k \in 1..Len(vad.result) : vad.result[k].start = p.start /\ vad.result[k].end = p.end

\* when max >= 2 * MIN_DURATION_SEC the filter loop drops no piece of the
\* i-th interval, and the pieces cover the interval
NoPieceDropped(i) ==
  (vad.pc = "returned" /\ vad.max_duration >= 2 * MIN_DURATION_SEC) =>
    /\ \A k \in 1..Len(Pieces(i)) : Kept(Pieces(i)[k])
    /\ CoversExactly(vad.speech_timestamps[i], Pieces(i), vad.max_duration)

\* C38 as stated: every piece of an interval longer than max is longer than
\* max / 2 and all pieces of the interval are equally long; so when
\* max >= 2 * MIN_DURATION_SEC the filter drops none of them and the kept
\* segments cover the interval.
C38_PiecesEqualAndOverHalf ==
  ChopReturned =>
    \A i \in 1..Len(vad.speech_timestamps) :
      Bisected(i) => (EqualAndOverHalf(Pieces(i), vad.max_duration) /\ NoPieceDropped(i))

\* C38 as amended: the pieces of an interval longer than max are longer than
\* max / 2 and equally long when every midpoint of the bisection is computed
\* exactly; whether or not the midpoints are rounded, when
\* max >= 2 * MIN_DURATION_SEC the filter drops no piece and the kept
\* segments cover the interval.
C38_PiecesEqualWhenExact ==
  ChopReturned =>
    \A i \in 1..Len(vad.speech_timestamps) :
      Bisected(i) =>
        /\ ExactMidpoints(vad.speech_timestamps[i], vad.max_duration) =>
             EqualAndOverHalf(Pieces(i), vad.max_duration)
        /\ NoPieceDropped(i)

\* an interval a little over 2 seconds, max = 2 * MIN_DURATION_SEC: both
\* halves are kept
C38_Witness ==
  /\ vad.pc = "returned"
  /\ vad.max_duration = 2 * MIN_DURATION_SEC
  /\ vad.speech_timestamps = <<OverTwoSeconds>>
  /\ Bisected(1)
  /\ ExactMidpoints(OverTwoSeconds, vad.max_duration)
  /\ Len(vad.result) = 2

\* every interval of the list is within max_duration
InBound(segments, max_duration) ==
  \A i \in 1..Len(segments) : FloatSub(segments[i].end, segments[i].start) <= max_duration

\* C39: chop_to_max_duration returns a list whose intervals are all within
\* max unchanged, and applied to its own output with the same max it returns
\* that output unchanged.
C39_ChopIdempotent ==
  ChopReturned =>
    /\ InBound(vad.speech_timestamps, vad.max_duration) =>
         vad.final_segments = vad.speech_timestamps
    /\ chop_to_max_duration(vad.final_segments, vad.max_duration) = Returns(vad.final_segments)

\* a call with an interval of exactly max_duration, given back as it is, and
\* one that was bisected
C39_Witness ==
  /\ vad.pc = "chopped"
  /\ Len(vad.speech_timestamps) = 2
  /\ vad.speech_timestamps[1].end - vad.speech_timestamps[1].start = vad.max_duration
  /\ Bisected(2)
  /\ vad.final_segments[1] = vad.speech_timestamps[1]
  /\ Len(vad.final_segments) >= 3
  /\ chop_to_max_duration(vad.final_segments, vad.max_duration).segs = vad.final_segments

====
